---- MODULE Spec2Model ----
(***************************************************************************)
(* Model of the projection engine of src/src/domain/projections.py:        *)
(* ProjectionEngine.__init__, project_month and project_period.            *)
(*                                                                         *)
(* Number representation.  Money is a Decimal in the source; here it is an *)
(* integer number of currency units.  Fractions (tax rate, allocation      *)
(* weights) are integers counting thousandths, so that Decimal("0.001") is *)
(* 1 and Decimal(1) is RateDen; a product money * fraction is              *)
(* (money * fraction) \div RateDen.  Annual inflation rates and annual     *)
(* bucket returns are whole numbers r such that 1 + r is a perfect twelfth *)
(* power, so that (1 + r) ** (k / 12) is the integer Root12(1 + r) ^ k;    *)
(* the float rounding of the ** operator (at most one unit in the last     *)
(* place) is not modelled.  The inputs are drawn so that every product and *)
(* quotient below is exact (see ArithmeticExact).                          *)
(***************************************************************************)
EXTENDS Integers, Sequences, FiniteSets, TLC

VARIABLES
    assumptions,       \* the ProjectionAssumptions object handed to the engine (self.assumptions)
    engine,            \* "new" before __init__, "ready" after it returned, "error" after it raised
    pc,                \* position of project_period: "idle", "loop", "done"
    months,            \* argument months of project_period
    initial_balances,  \* argument initial_balances of project_period (None or a mapping)
    month_idx,         \* loop variable of project_period
    current_balances,  \* local current_balances of project_period
    projections,       \* local list projections of project_period
    yearly,            \* what aggregate_to_yearly returned for projections (None before)
    clock,             \* <<year, month>> of datetime.now()
    call,              \* the last direct call of project_month and its outcome (None before)
    accounts,          \* Ledger.accounts: account id -> Account
    transactions,      \* Ledger.transactions: transaction id -> Transaction
    ledger_call,       \* the last call on the Ledger, its argument and what it raised (None before)
    scenarios,         \* the rows of the scenarios table: id -> row
    created,           \* how many scenario rows were ever inserted
    request            \* the last scenario request and its HTTP status (None before)

vars == <<assumptions, engine, pc, months, initial_balances, month_idx,
          current_balances, projections, yearly, clock, call,
          accounts, transactions, ledger_call, scenarios, created, request>>

\* the state of the ledger and of the scenarios table, which no operation of
\* the projection engine touches
servicesState == <<accounts, transactions, ledger_call, scenarios, created, request>>

----------------------------------------------------------------------------
(* Bounds *)

MaxMonths == 3

\* the largest month index of a direct call of project_month
MaxIndex == 13

\* how many months the clock advances
MaxTicks == 2

\* the length of a year's projection
MaxYearMonths == 12

\* the scenarios ever saved
MaxScenarios == 3

----------------------------------------------------------------------------
(* Python values *)

\* Optional[T]: None is the empty sequence, a present value v is <<v>>.
None == <<>>
Some(v) == <<v>>
IsNone(o) == o = <<>>

\* dict.get(k, default)
Get(d, k, default) == IF k \in DOMAIN d THEN d[k] ELSE default

\* d[k] = v
Put(d, k, v) == [x \in (DOMAIN d) \cup {k} |-> IF x = k THEN v ELSE d[x]]

EmptyDict == [x \in {} |-> 0]

\* sum(d.values())
RECURSIVE SumKeys(_, _)
SumKeys(d, S) ==
    IF S = {} THEN 0
    ELSE LET k == CHOOSE x \in S : TRUE IN d[k] + SumKeys(d, S \ {k})

SumValues(d) == SumKeys(d, DOMAIN d)

Max(a, b) == IF a >= b THEN a ELSE b
Min(a, b) == IF a <= b THEN a ELSE b
Abs(a) == IF a < 0 THEN 0 - a ELSE a

\* Decimal fractions are counted in thousandths.
RateDen == 1000

\* money * fraction
Times(m, r) == (m * r) \div RateDen

RECURSIVE Pow(_, _)
Pow(b, e) == IF e = 0 THEN 1 ELSE b * Pow(b, e - 1)

\* x ** (1 / 12) for a perfect twelfth power x
Root12(x) == CHOOSE f \in 0..3 : Pow(f, 12) = x

----------------------------------------------------------------------------
(* ProjectionEngine.__init__ *)

\* Decimal("0.001") in thousandths
Tolerance == 1

\* self.assumptions after the two "is None" normalisations
Normalised(a) ==
    [a EXCEPT !.allocation_weights =
                  IF IsNone(a.allocation_weights) THEN Some(EmptyDict) ELSE @,
              !.bucket_returns =
                  IF IsNone(a.bucket_returns) THEN Some(EmptyDict) ELSE @]

\* the tolerance taken as Decimal("0.01")
WeightsRejectedLoose(weights) ==
    /\ DOMAIN weights # {}
    /\ Abs(SumValues(weights) - RateDen) > 10 * Tolerance

\* the boundary excluded: >= instead of >
WeightsRejectedStrict(weights) ==
    /\ DOMAIN weights # {}
    /\ Abs(SumValues(weights) - RateDen) >= Tolerance

\* the condition under which __init__ raises ValueError
WeightsRejected(weights) ==
    /\ DOMAIN weights # {}
    /\ Abs(SumValues(weights) - RateDen) > Tolerance

----------------------------------------------------------------------------
(* ProjectionEngine.project_month *)

\* a Decimal used as a condition: None and Decimal(0) are both false
Truthy(o) == (~IsNone(o)) /\ o[1] # 0

\* base ** (num / den) with base < 0 and num / den not a whole number is a
\* complex number in Python; Decimal(str(...)) of it raises InvalidOperation
PowerRaises(base, num, den) == base < 0 /\ num % den # 0

\* the factor compounded in whole years only
InflationFactorYearly(rate, month_index) == Pow(1 + rate, month_index \div 12)

\* Decimal(str((1 + float(rate)) ** (month_index / 12))), where it does not raise
InflationFactor(rate, month_index) ==
    IF 1 + rate < 0
    THEN Pow(1 + rate, month_index \div 12)
    ELSE Pow(Root12(1 + rate), month_index)

\* Decimal(str((1 + float(annual_return)) ** (1 / 12)))
MonthlyReturnFactor(annual_return) == Root12(1 + annual_return)

GrossIncome(a) == a.monthly_salary + (a.annual_bonus \div 12) + a.other_income

\* the tax taken on the salary alone
TaxesOnSalary(a) == Times(a.monthly_salary, a.tax_rate)

Taxes(a) == Times(GrossIncome(a), a.tax_rate)

\* net income taken in the first display currency when an FXMapping is present
NetIncomeInDisplay(a) ==
    IF IsNone(a.fx_mapping) THEN GrossIncome(a) - Taxes(a)
    ELSE LET fx == a.fx_mapping[1]
         IN ((GrossIncome(a) - Taxes(a))
               * Get(fx.rates, fx.base_currency \o fx.display_currencies[1],
                     RateDen)) \div RateDen

NetIncome(a) == GrossIncome(a) - Taxes(a)

\* category_budget.inflation_override or self.assumptions.expense_inflation_rate
CatInflationRate(a, cb) ==
    IF Truthy(cb.inflation_override) THEN cb.inflation_override[1]
    ELSE a.expense_inflation_rate

\* sub_budget.inflation_override or cat_inflation_rate
SubInflationRate(a, cb, sb) ==
    IF Truthy(sb.inflation_override) THEN sb.inflation_override[1]
    ELSE CatInflationRate(a, cb)

SubExpense(a, cb, sb, month_index) ==
    sb.monthly_amount * InflationFactor(SubInflationRate(a, cb, sb), month_index)

CompositeKey(cb, sb) == cb.category_id \o ":" \o sb.subcategory_id

\* the inner loop over subcategory_budgets: [breakdown, category_total]
RECURSIVE SubLoop(_, _, _, _, _)
SubLoop(a, cb, subs, month_index, acc) ==
    IF subs = <<>> THEN acc
    ELSE LET sb == Head(subs)
             e  == SubExpense(a, cb, sb, month_index)
         IN SubLoop(a, cb, Tail(subs), month_index,
                    [breakdown |-> Put(acc.breakdown, CompositeKey(cb, sb), e),
                     total     |-> acc.total + e])

\* the loop over category_budgets: [breakdown, total]
RECURSIVE CategoryLoop(_, _, _, _)
CategoryLoop(a, cats, month_index, acc) ==
    IF cats = <<>> THEN acc
    ELSE LET cb == Head(cats) IN
         IF cb.subcategory_budgets # <<>>
         THEN LET r == SubLoop(a, cb, cb.subcategory_budgets, month_index,
                               [breakdown |-> acc.breakdown, total |-> 0])
              IN CategoryLoop(a, Tail(cats), month_index,
                     [breakdown |-> Put(r.breakdown, cb.category_id, r.total),
                      total     |-> acc.total + r.total])
         ELSE LET e == cb.monthly_amount
                         * InflationFactor(CatInflationRate(a, cb), month_index)
              IN CategoryLoop(a, Tail(cats), month_index,
                     [breakdown |-> Put(acc.breakdown, cb.category_id, e),
                      total     |-> acc.total + e])

\* the flat amount preferred over the category budgets
ExpensePathFlatFirst(a, month_index) ==
    IF ~IsNone(a.monthly_expenses)
    THEN [breakdown |-> EmptyDict,
          total |-> a.monthly_expenses[1]
                      * InflationFactor(a.expense_inflation_rate, month_index)]
    ELSE IF a.category_budgets # <<>>
    THEN CategoryLoop(a, a.category_budgets, month_index,
                      [breakdown |-> EmptyDict, total |-> 0])
    ELSE [breakdown |-> EmptyDict, total |-> 0]

\* expense_breakdown and expenses: [breakdown, total]
ExpensePath(a, month_index) ==
    IF a.category_budgets # <<>>
    THEN CategoryLoop(a, a.category_budgets, month_index,
                      [breakdown |-> EmptyDict, total |-> 0])
    ELSE IF ~IsNone(a.monthly_expenses)
    THEN [breakdown |-> EmptyDict,
          total |-> a.monthly_expenses[1]
                      * InflationFactor(a.expense_inflation_rate, month_index)]
    ELSE [breakdown |-> EmptyDict, total |-> 0]

Expenses(a, month_index) == ExpensePath(a, month_index).total

\* the loop over one_time_costs: [total, detail]
RECURSIVE OneTimeLoop(_, _, _)
OneTimeLoop(costs, month_index, acc) ==
    IF costs = <<>> THEN acc
    ELSE LET cost == Head(costs) IN
         IF cost.month_index = month_index
         THEN OneTimeLoop(Tail(costs), month_index,
                  [total  |-> acc.total + cost.amount,
                   detail |-> Append(acc.detail,
                                 [name |-> cost.name, amount |-> cost.amount,
                                  notes |-> cost.notes,
                                  category_id |-> cost.category_id])])
         ELSE OneTimeLoop(Tail(costs), month_index, acc)

\* every cost due in this month or an earlier one charged
OneTimeCostsDueBy(a, month_index) ==
    LET due == SelectSeq(a.one_time_costs,
                         LAMBDA cost : cost.month_index <= month_index)
    IN [total  |-> SumValues([i \in 1..Len(due) |-> due[i].amount]),
        detail |-> [i \in 1..Len(due) |->
                       [name |-> due[i].name, amount |-> due[i].amount,
                        notes |-> due[i].notes,
                        category_id |-> due[i].category_id]]]

OneTimeCosts(a, month_index) ==
    OneTimeLoop(a.one_time_costs, month_index, [total |-> 0, detail |-> <<>>])

\* the clamp at zero left out
SavingsNoClamp(a, month_index) ==
    NetIncome(a) - Expenses(a, month_index) - OneTimeCosts(a, month_index).total

Savings(a, month_index) ==
    Max(0, NetIncome(a) - Expenses(a, month_index)
              - OneTimeCosts(a, month_index).total)

Weights(a) == a.allocation_weights[1]

Returns(a) == a.bucket_returns[1]

\* self.assumptions.enforce_cash_buffer and self.assumptions.cash_buffer_bucket_name
BufferRuleOn(a) ==
    /\ a.enforce_cash_buffer
    /\ ~IsNone(a.cash_buffer_bucket_name)
    /\ a.cash_buffer_bucket_name[1] # ""

TargetCash(a, month_index) ==
    Expenses(a, month_index) * a.minimum_cash_buffer_months

CurrentCash(a, previous_balances) ==
    Get(previous_balances, a.cash_buffer_bucket_name[1], 0)

\* the enforce_cash_buffer flag not consulted
PriorityAppliesUnflagged(a, month_index, previous_balances) ==
    /\ ~IsNone(a.cash_buffer_bucket_name)
    /\ a.cash_buffer_bucket_name[1] # ""
    /\ CurrentCash(a, previous_balances) < TargetCash(a, month_index)

\* the branch "current_cash < target_cash" is taken
PriorityApplies(a, month_index, previous_balances) ==
    /\ BufferRuleOn(a)
    /\ CurrentCash(a, previous_balances) < TargetCash(a, month_index)

ToCash(a, month_index, previous_balances) ==
    Min(Savings(a, month_index),
        TargetCash(a, month_index) - CurrentCash(a, previous_balances))

\* for bucket_name, weight in allocation_weights.items(): savings * weight
Proportional(a, amount) ==
    [b \in DOMAIN Weights(a) |-> Times(amount, Weights(a)[b])]

BucketAllocations(a, month_index, previous_balances) ==
    IF PriorityApplies(a, month_index, previous_balances)
    THEN LET to_cash   == ToCash(a, month_index, previous_balances)
             remainder == Savings(a, month_index) - to_cash
         IN [b \in DOMAIN Weights(a) |->
                IF b = a.cash_buffer_bucket_name[1]
                THEN to_cash + Times(remainder, Weights(a)[b])
                ELSE Times(remainder, Weights(a)[b])]
    ELSE Proportional(a, Savings(a, month_index))

\* the contribution grown together with the prior balance
NewBalanceGrowAll(previous_balance, annual_return, allocation) ==
    (previous_balance + allocation) * MonthlyReturnFactor(annual_return)

NewBalance(previous_balance, annual_return, allocation) ==
    previous_balance * MonthlyReturnFactor(annual_return) + allocation

\* every bucket of the prior balances rolled forward, weighted or not
BucketBalancesCarryAll(a, previous_balances, allocations) ==
    [b \in DOMAIN allocations \cup DOMAIN previous_balances |->
        NewBalance(Get(previous_balances, b, 0), Get(Returns(a), b, 0),
                   Get(allocations, b, 0))]

BucketBalances(a, previous_balances, allocations) ==
    [b \in DOMAIN allocations |->
        NewBalance(Get(previous_balances, b, 0), Get(Returns(a), b, 0),
                   allocations[b])]

\* savings / net_income as a fraction <<numerator, denominator>> in lowest terms
RECURSIVE GCD(_, _)
GCD(x, y) == IF y = 0 THEN x ELSE GCD(y, x % y)

Frac(n, d) == LET g == GCD(Abs(n), d) IN <<n \div g, d \div g>>

\* savings / net_income if net_income > 0 else Decimal(0)
SavingsRate(a, month_index) ==
    IF NetIncome(a) > 0 THEN Frac(Savings(a, month_index), NetIncome(a))
    ELSE <<0, 1>>

\* a date is <<year, month>>: start_date, or now() set to the first of the month
\* the configured start_date never consulted
StartDateNow(a) == clock

StartDate(a) == IF IsNone(a.start_date) THEN clock ELSE a.start_date[1]

\* date + relativedelta(months=n)
AddMonths(date, n) ==
    LET m0 == (date[2] - 1) + n
    IN <<date[1] + (m0 \div 12), (m0 % 12) + 1>>

Digit(d) == <<"0", "1", "2", "3", "4", "5", "6", "7", "8", "9">>[d + 1]

\* date.strftime("%Y-%m") as a sequence of characters (years 1000..9999)
StrfYearMonth(date) ==
    << Digit(date[1] \div 1000), Digit((date[1] \div 100) % 10),
       Digit((date[1] \div 10) % 10), Digit(date[1] % 10), "-",
       Digit(date[2] \div 10), Digit(date[2] % 10) >>

\* the label of the month with the year not carried past December
PeriodNoCarry(a, month_index) ==
    StrfYearMonth(<<StartDate(a)[1], ((StartDate(a)[2] - 1 + month_index) % 12) + 1>>)

\* (start_date + relativedelta(months=month_index)).strftime("%Y-%m")
Period(a, month_index) == StrfYearMonth(AddMonths(StartDate(a), month_index))

\* fx.rates.get(f"{fx.base_currency}{currency}", Decimal(1))
FxRate(fx, currency) == Get(fx.rates, fx.base_currency \o currency, RateDen)

\* the display currencies are not converted: the rate table is not consulted
FxMapUnconverted(a, amount) ==
    IF IsNone(a.fx_mapping) THEN EmptyDict
    ELSE LET fx == a.fx_mapping[1]
         IN [c \in {fx.display_currencies[i] : i \in 1..Len(fx.display_currencies)}
                |-> amount]

\* {currency: amount * rate} over fx.display_currencies; {} without an fx_mapping
FxMap(a, amount) ==
    IF IsNone(a.fx_mapping) THEN EmptyDict
    ELSE LET fx == a.fx_mapping[1]
         IN [c \in {fx.display_currencies[i] : i \in 1..Len(fx.display_currencies)}
                |-> Times(amount, FxRate(fx, c))]

\* the MonthlyProjection returned by project_month(month_index, previous_balances)
ProjectMonth(a, month_index, previous_balances) ==
    LET exp   == ExpensePath(a, month_index)
        otc   == OneTimeCosts(a, month_index)
        alloc == BucketAllocations(a, month_index, previous_balances)
        bal   == BucketBalances(a, previous_balances, alloc)
    IN [period                |-> Period(a, month_index),
        gross_income          |-> GrossIncome(a),
        taxes                 |-> Taxes(a),
        net_income            |-> NetIncome(a),
        expenses              |-> exp.total,
        expense_breakdown     |-> exp.breakdown,
        one_time_costs        |-> otc.total,
        one_time_costs_detail |-> otc.detail,
        savings               |-> Savings(a, month_index),
        bucket_allocations    |-> alloc,
        bucket_balances       |-> bal,
        savings_rate          |-> SavingsRate(a, month_index),
        net_income_fx         |-> FxMap(a, NetIncome(a)),
        total_wealth_fx       |-> FxMap(a, SumValues(bal))]

\* the inflation rates of the expense lines that project_month compounds
ExpenseRates(a) ==
    IF a.category_budgets # <<>>
    THEN UNION { LET cb == a.category_budgets[i]
                 IN IF cb.subcategory_budgets # <<>>
                    THEN { SubInflationRate(a, cb, cb.subcategory_budgets[j]) :
                             j \in 1..Len(cb.subcategory_budgets) }
                    ELSE { CatInflationRate(a, cb) } :
                 i \in 1..Len(a.category_budgets) }
    ELSE IF ~IsNone(a.monthly_expenses) THEN {a.expense_inflation_rate}
    ELSE {}

\* project_month(month_index, ...) raises instead of returning
MonthRaises(a, month_index) ==
    \/ \E r \in ExpenseRates(a) : PowerRaises(1 + r, month_index, 12)
    \/ \E b \in DOMAIN Weights(a) : PowerRaises(1 + Get(Returns(a), b, 0), 1, 12)

----------------------------------------------------------------------------
(* aggregate_to_yearly *)

DigitValue(c) == CHOOSE d \in 0..9 : Digit(d) = c

\* int(chars)
RECURSIVE ParseInt(_)
ParseInt(chars) ==
    IF chars = <<>> THEN 0
    ELSE 10 * ParseInt(SubSeq(chars, 1, Len(chars) - 1))
             + DigitValue(chars[Len(chars)])

\* the year read from the month digits of the label
YearOfMisread(p) == ParseInt(SubSeq(p.period, 6, 7))

\* int(p.period[:4])
YearOf(p) == ParseInt(SubSeq(p.period, 1, 4))

\* years_data[year]: the projections of that year, in input order
RECURSIVE MonthsOfYear(_, _)
MonthsOfYear(ps, year) ==
    IF ps = <<>> THEN <<>>
    ELSE IF YearOf(Head(ps)) = year
         THEN <<Head(ps)>> \o MonthsOfYear(Tail(ps), year)
         ELSE MonthsOfYear(Tail(ps), year)

\* sorted(S)
RECURSIVE Sorted(_)
Sorted(S) ==
    IF S = {} THEN <<>>
    ELSE LET m == CHOOSE x \in S : \A y \in S : x <= y
         IN <<m>> \o Sorted(S \ {m})

\* sum(m.<field> for m in months), by position
RECURSIVE SumSeq(_)
SumSeq(q) == IF q = <<>> THEN 0 ELSE Head(q) + SumSeq(Tail(q))

FracAdd(x, y) == Frac(x[1] * y[2] + y[1] * x[2], x[2] * y[2])

RECURSIVE SumFracs(_)
SumFracs(q) == IF q = <<>> THEN <<0, 1>> ELSE FracAdd(Head(q), SumFracs(Tail(q)))

\* the sum of the rates divided by twelve, whatever the number of months
AvgSavingsRateOfTwelve(ms) ==
    LET t == SumFracs([i \in 1..Len(ms) |-> ms[i].savings_rate])
    IN Frac(t[1], t[2] * 12)

\* sum(m.savings_rate for m in months) / len(months)
AvgSavingsRate(ms) ==
    LET t == SumFracs([i \in 1..Len(ms) |-> ms[i].savings_rate])
    IN Frac(t[1], t[2] * Len(ms))

\* the loop filling bucket_balances_start
BalancesStart(first_month, balances_end) ==
    [b \in DOMAIN balances_end |->
        IF DOMAIN first_month.bucket_allocations # {}
        THEN Max(0, Get(first_month.bucket_balances, b, 0)
                      - Get(first_month.bucket_allocations, b, 0))
        ELSE 0]

\* the loop filling bucket_contributions
RECURSIVE Contributions(_, _)
Contributions(ms, acc) ==
    IF ms = <<>> THEN acc
    ELSE LET al == Head(ms).bucket_allocations
         IN Contributions(Tail(ms),
                [b \in (DOMAIN acc) \cup (DOMAIN al) |->
                    Get(acc, b, 0) + Get(al, b, 0)])

\* the YearlyProjection built from the months of one year
YearSummary(year, ms) ==
    LET balances_end == ms[Len(ms)].bucket_balances
    IN [year                  |-> year,
        gross_income          |-> SumSeq([i \in 1..Len(ms) |-> ms[i].gross_income]),
        taxes                 |-> SumSeq([i \in 1..Len(ms) |-> ms[i].taxes]),
        net_income            |-> SumSeq([i \in 1..Len(ms) |-> ms[i].net_income]),
        expenses              |-> SumSeq([i \in 1..Len(ms) |-> ms[i].expenses]),
        one_time_costs        |-> SumSeq([i \in 1..Len(ms) |-> ms[i].one_time_costs]),
        savings               |-> SumSeq([i \in 1..Len(ms) |-> ms[i].savings]),
        avg_savings_rate      |-> AvgSavingsRate(ms),
        bucket_balances_start |-> BalancesStart(ms[1], balances_end),
        bucket_balances_end   |-> balances_end,
        bucket_contributions  |-> Contributions(ms, EmptyDict),
        total_wealth_end      |-> SumValues(balances_end)]

\* aggregate_to_yearly(ps)
AggregateToYearly(ps) ==
    LET years == Sorted({YearOf(ps[i]) : i \in 1..Len(ps)})
    IN [j \in 1..Len(years) |-> YearSummary(years[j], MonthsOfYear(ps, years[j]))]

----------------------------------------------------------------------------
(* Inputs: the assumption sets and the arguments of project_period *)

\* monthly_salary, annual_bonus, other_income, tax_rate
Incomes ==
    { [monthly_salary |-> 80000, annual_bonus |-> 0,      other_income |-> 0,
       tax_rate |-> 200],
      [monthly_salary |-> 48000, annual_bonus |-> 192000, other_income |-> 16000,
       tax_rate |-> 0 - 200],
      [monthly_salary |-> 0,     annual_bonus |-> 0,      other_income |-> 0,
       tax_rate |-> 200] }

Sub(id, amount, override) ==
    [subcategory_id |-> id, monthly_amount |-> amount, inflation_override |-> override]

Cat(id, amount, override, subs) ==
    [category_id |-> id, monthly_amount |-> amount, inflation_override |-> override,
     subcategory_budgets |-> subs]

\* category_budgets, monthly_expenses, expense_inflation_rate
ExpenseInputs ==
    { [category_budgets |-> <<>>, monthly_expenses |-> None,
       expense_inflation_rate |-> 0],
      [category_budgets |-> <<>>, monthly_expenses |-> Some(16000),
       expense_inflation_rate |-> 0],
      [category_budgets |-> <<>>, monthly_expenses |-> Some(48000),
       expense_inflation_rate |-> 0],
      [category_budgets |-> <<>>, monthly_expenses |-> Some(16000),
       expense_inflation_rate |-> 4095],
      [category_budgets |-> <<>>, monthly_expenses |-> Some(16000),
       expense_inflation_rate |-> 0 - 2],
      [category_budgets |->
           << Cat("rent", 8000, None, <<>>),
              Cat("food", 64000, Some(4095),
                  << Sub("in", 4000, None), Sub("out", 4000, Some(0)) >>) >>,
       monthly_expenses |-> Some(32000),
       expense_inflation_rate |-> 0] }

Cost(name, amount, month_index) ==
    [name |-> name, amount |-> amount, month_index |-> month_index,
     notes |-> None, category_id |-> None]

OneTimeInputs ==
    { <<>>,
      << Cost("house", 160000, 0) >>,
      << Cost("trip", 16000, 1), Cost("car", 32000, 2), Cost("gift", 16000, 1),
         Cost("roof", 16000, 9), Cost("past", 16000, 0 - 1) >> }

\* weights whose products with the money amounts stay exact however often the
\* cash-buffer rule is re-entered (halves and wholes)
CoarseWeights ==
    { None,
      Some(EmptyDict),
      Some([b \in {"cash"} |-> 1000]),
      Some([b \in {"invest"} |-> 1000]),
      Some([b \in {"cash", "invest"} |-> 500]),
      Some([b \in {"cash", "invest"} |-> IF b = "cash" THEN 0 - 500 ELSE 1500]) }

\* weights at and beyond the tolerance of the sum check
FineWeights ==
    { Some([b \in {"cash", "invest"} |-> IF b = "cash" THEN 499 ELSE 500]),
      Some([b \in {"cash", "invest"} |-> IF b = "cash" THEN 500 ELSE 501]),
      Some([b \in {"cash", "invest"} |-> IF b = "cash" THEN 498 ELSE 500]),
      Some([b \in {"cash", "invest"} |-> IF b = "cash" THEN 500 ELSE 502]),
      Some([b \in {"cash", "invest"} |-> IF b = "cash" THEN 300 ELSE 500]) }

ReturnInputs ==
    { None,
      Some([b \in {"cash", "invest"} |-> IF b = "cash" THEN 0 ELSE 4095]),
      Some([b \in {"cash"} |-> 4095]) }

\* enforce_cash_buffer, cash_buffer_bucket_name, minimum_cash_buffer_months
BufferInputs ==
    { [enforce_cash_buffer |-> FALSE, cash_buffer_bucket_name |-> Some("cash"),
       minimum_cash_buffer_months |-> 6],
      [enforce_cash_buffer |-> TRUE,  cash_buffer_bucket_name |-> None,
       minimum_cash_buffer_months |-> 6],
      [enforce_cash_buffer |-> TRUE,  cash_buffer_bucket_name |-> Some("cash"),
       minimum_cash_buffer_months |-> 6],
      [enforce_cash_buffer |-> TRUE,  cash_buffer_bucket_name |-> Some("cash"),
       minimum_cash_buffer_months |-> 2] }

\* fine weights come with the buffer rule off, where a month's allocation is a
\* single product savings * weight
PolicyInputs ==
    { p \in (CoarseWeights \cup FineWeights) \X BufferInputs :
        p[1] \in FineWeights => ~p[2].enforce_cash_buffer }

AssumptionInputs ==
    { [base_currency |-> "SGD", start_date |-> Some(<<2026, 11>>),
       monthly_salary |-> i.monthly_salary, annual_bonus |-> i.annual_bonus,
       other_income |-> i.other_income, tax_rate |-> i.tax_rate,
       category_budgets |-> e.category_budgets,
       expense_inflation_rate |-> e.expense_inflation_rate,
       monthly_expenses |-> e.monthly_expenses,
       one_time_costs |-> o,
       allocation_weights |-> p[1], bucket_returns |-> r,
       minimum_cash_buffer_months |-> p[2].minimum_cash_buffer_months,
       cash_buffer_bucket_name |-> p[2].cash_buffer_bucket_name,
       enforce_cash_buffer |-> p[2].enforce_cash_buffer,
       fx_mapping |-> None] :
      i \in Incomes, e \in ExpenseInputs, o \in OneTimeInputs,
      p \in PolicyInputs, r \in ReturnInputs }

\* assumptions of the engines whose project_month is called directly
CallIncomes ==
    { [monthly_salary |-> 80000, annual_bonus |-> 0, other_income |-> 0,
       tax_rate |-> 200] }

CallExpenseInputs ==
    { [category_budgets |-> <<>>, monthly_expenses |-> None,
       expense_inflation_rate |-> 4095],
      [category_budgets |-> <<>>, monthly_expenses |-> Some(16000),
       expense_inflation_rate |-> 4095],
      [category_budgets |-> <<>>, monthly_expenses |-> Some(16000),
       expense_inflation_rate |-> 0],
      [category_budgets |-> <<>>, monthly_expenses |-> Some(16000),
       expense_inflation_rate |-> 0 - 2],
      [category_budgets |->
           << Cat("rent", 8000, None, <<>>),
              Cat("food", 64000, None,
                  << Sub("in", 4000, None), Sub("out", 4000, None) >>) >>,
       monthly_expenses |-> Some(32000), expense_inflation_rate |-> 4095],
      [category_budgets |->
           << Cat("rent", 8000, Some(0), <<>>),
              Cat("food", 64000, Some(0),
                  << Sub("in", 4000, Some(4095)), Sub("out", 4000, None) >>) >>,
       monthly_expenses |-> None, expense_inflation_rate |-> 4095],
      [category_budgets |->
           << Cat("food", 64000, None,
                  << Sub("in", 4000, Some(4095)), Sub("out", 4000, None) >>),
              Cat("rent", 8000, Some(4095), <<>>) >>,
       monthly_expenses |-> None, expense_inflation_rate |-> 0],
      [category_budgets |->
           << Cat("food", 64000, Some(4095),
                  << Sub("in", 4000, Some(0)), Sub("out", 4000, None) >>) >>,
       monthly_expenses |-> None, expense_inflation_rate |-> 0],
      [category_budgets |->
           << Cat("food", 8000, None, <<>>),
              Cat("food", 16000, None,
                  << Sub("in", 4000, None), Sub("in", 8000, None) >>) >>,
       monthly_expenses |-> None, expense_inflation_rate |-> 0] }

CallWeights ==
    { Some([b \in {"cash", "invest"} |-> 500]),
      Some([b \in {"cash", "invest"} |-> IF b = "cash" THEN 300 ELSE 500]) }

CallReturns ==
    { None,
      Some([b \in {"cash", "invest"} |-> IF b = "cash" THEN 0 ELSE 4095]),
      Some([b \in {"cash", "invest"} |-> IF b = "cash" THEN 0 ELSE 0 - 2]) }

\* FXMapping(base_currency, display_currencies, rates); the pair SGDEUR has
\* no rate
FxInputs ==
    { None,
      Some([base_currency |-> "SGD", display_currencies |-> <<"USD", "EUR">>,
            rates |-> [pair \in {"SGDUSD"} |-> 1500]]) }

StartDateInputs == { None, Some(<<2026, 11>>) }

CallAssumptionInputs ==
    { [base_currency |-> "SGD", start_date |-> d,
       monthly_salary |-> i.monthly_salary, annual_bonus |-> i.annual_bonus,
       other_income |-> i.other_income, tax_rate |-> i.tax_rate,
       category_budgets |-> e.category_budgets,
       expense_inflation_rate |-> e.expense_inflation_rate,
       monthly_expenses |-> e.monthly_expenses,
       one_time_costs |-> <<>>,
       allocation_weights |-> w, bucket_returns |-> r,
       minimum_cash_buffer_months |-> 6,
       cash_buffer_bucket_name |-> Some("cash"),
       enforce_cash_buffer |-> FALSE,
       fx_mapping |-> f] :
      i \in CallIncomes, e \in CallExpenseInputs, w \in CallWeights,
      r \in CallReturns, f \in FxInputs, d \in StartDateInputs }

\* initial_balances of project_period
BalanceInputs ==
    { None,
      Some(EmptyDict),
      Some([b \in {"cash"} |-> 16000]),
      Some([b \in {"cash", "other"} |-> IF b = "cash" THEN 96000 ELSE 32000]) }

----------------------------------------------------------------------------
(* The state machine *)

\* an empty ledger and an empty scenarios table
ServicesIdle ==
    /\ accounts = EmptyDict
    /\ transactions = EmptyDict
    /\ ledger_call = None
    /\ scenarios = EmptyDict
    /\ created = 0
    /\ request = None

\* datetime.now() when the engine is built: <<year, month>>
ClockStart == <<2026, 11>>

MonthNumber(date) == date[1] * 12 + (date[2] - 1)

\* what one call of project_period leaves alone
callerState == <<yearly, clock, call>>

Init ==
    /\ assumptions \in AssumptionInputs
    /\ engine = "new"
    /\ pc = "idle"
    /\ months = 0
    /\ initial_balances = None
    /\ month_idx = 0
    /\ current_balances = EmptyDict
    /\ projections = <<>>
    /\ yearly = None
    /\ clock = ClockStart
    /\ call = None
    /\ ServicesIdle

\* ProjectionEngine.__init__ returns
Construct ==
    /\ engine = "new"
    /\ ~WeightsRejected(Weights(Normalised(assumptions)))
    /\ assumptions' = Normalised(assumptions)
    /\ engine' = "ready"
    /\ UNCHANGED <<pc, months, initial_balances, month_idx, current_balances,
                   projections, callerState>>
    /\ UNCHANGED servicesState

\* ProjectionEngine.__init__ raises ValueError
ConstructFail ==
    /\ engine = "new"
    /\ WeightsRejected(Weights(Normalised(assumptions)))
    /\ assumptions' = Normalised(assumptions)
    /\ engine' = "error"
    /\ UNCHANGED <<pc, months, initial_balances, month_idx, current_balances,
                   projections, callerState>>
    /\ UNCHANGED servicesState

\* every period begun from empty buckets, initial_balances not read
StartBalancesEmpty(a, initial) == [b \in DOMAIN Weights(a) |-> 0]

\* initial_balances or {k: Decimal(0) for k in allocation_weights}
StartBalances(a, initial) ==
    IF (~IsNone(initial)) /\ DOMAIN initial[1] # {}
    THEN initial[1]
    ELSE [b \in DOMAIN Weights(a) |-> 0]

\* project_period(n, initial) as a function of the assumptions: the months
\* from index k on, current_balances being the balances carried so far
RECURSIVE PeriodFrom(_, _, _, _)
PeriodFrom(a, k, n, balances) ==
    IF k >= n THEN <<>>
    ELSE LET projection == ProjectMonth(a, k, balances)
         IN <<projection>> \o PeriodFrom(a, k + 1, n, projection.bucket_balances)

ProjectPeriod(a, n, initial) == PeriodFrom(a, 0, n, StartBalances(a, initial))

\* project_period is called: the two assignments before the loop
PeriodStart(n, initial) ==
    /\ engine = "ready"
    /\ pc = "idle"
    /\ months' = n
    /\ initial_balances' = initial
    /\ projections' = <<>>
    /\ current_balances' = StartBalances(assumptions, initial)
    /\ month_idx' = 0
    /\ pc' = "loop"
    /\ UNCHANGED <<assumptions, engine, callerState>>
    /\ UNCHANGED servicesState

\* the balances not carried to the next month
PeriodStepStale ==
    /\ pc = "loop"
    /\ month_idx < months
    /\ ~MonthRaises(assumptions, month_idx)
    /\ projections' = Append(projections,
                             ProjectMonth(assumptions, month_idx, current_balances))
    /\ month_idx' = month_idx + 1
    /\ UNCHANGED <<assumptions, engine, pc, months, initial_balances,
                   current_balances, callerState>>
    /\ UNCHANGED servicesState

\* one iteration of "for month_idx in range(months)" in which project_month returns
PeriodStep ==
    /\ pc = "loop"
    /\ month_idx < months
    /\ ~MonthRaises(assumptions, month_idx)
    /\ LET projection == ProjectMonth(assumptions, month_idx, current_balances)
       IN /\ projections' = Append(projections, projection)
          /\ current_balances' = projection.bucket_balances
    /\ month_idx' = month_idx + 1
    /\ UNCHANGED <<assumptions, engine, pc, months, initial_balances, callerState>>
    /\ UNCHANGED servicesState

\* an iteration in which project_month raises: the exception leaves
\* project_period, which returns nothing
PeriodRaise ==
    /\ pc = "loop"
    /\ month_idx < months
    /\ MonthRaises(assumptions, month_idx)
    /\ pc' = "raised"
    /\ UNCHANGED <<assumptions, engine, months, initial_balances, month_idx,
                   current_balances, projections, callerState>>
    /\ UNCHANGED servicesState

\* the loop is exhausted: return projections
PeriodReturn ==
    /\ pc = "loop"
    /\ month_idx >= months
    /\ pc' = "done"
    /\ UNCHANGED <<assumptions, engine, months, initial_balances, month_idx,
                   current_balances, projections, callerState>>
    /\ UNCHANGED servicesState

\* the series emptied while it is grouped
AggregateConsuming ==
    /\ pc = "done"
    /\ yearly' = Some(AggregateToYearly(projections))
    /\ projections' = <<>>
    /\ pc' = "aggregated"
    /\ UNCHANGED <<assumptions, engine, months, initial_balances, month_idx,
                   current_balances, clock, call>>
    /\ UNCHANGED servicesState

\* the caller hands the returned series to aggregate_to_yearly
Aggregate ==
    /\ pc = "done"
    /\ yearly' = Some(AggregateToYearly(projections))
    /\ pc' = "aggregated"
    /\ UNCHANGED <<assumptions, engine, months, initial_balances, month_idx,
                   current_balances, projections, clock, call>>
    /\ UNCHANGED servicesState

\* previous_balances, or zero for every weighted bucket when it is None
CallBalances(a, previous_balances) ==
    IF IsNone(previous_balances)
    THEN [b \in DOMAIN Weights(a) |-> 0]
    ELSE previous_balances[1]

\* a direct call project_month(k, previous_balances): what it returned, or
\* that it raised
ProjectMonthCall(k, previous_balances) ==
    /\ engine = "ready"
    /\ pc = "idle"
    /\ call' = Some([at                |-> clock,
                     month_index       |-> k,
                     previous_balances |-> previous_balances,
                     raised            |-> MonthRaises(assumptions, k),
                     result            |->
                         IF MonthRaises(assumptions, k) THEN None
                         ELSE Some(ProjectMonth(assumptions, k,
                                     CallBalances(assumptions, previous_balances)))])
    /\ UNCHANGED <<assumptions, engine, pc, months, initial_balances, month_idx,
                   current_balances, projections, yearly, clock>>
    /\ UNCHANGED servicesState

\* the calendar month of datetime.now() advances
Tick ==
    /\ MonthNumber(clock) - MonthNumber(ClockStart) < MaxTicks
    /\ clock' = AddMonths(clock, 1)
    /\ UNCHANGED <<assumptions, engine, pc, months, initial_balances, month_idx,
                   current_balances, projections, yearly, call>>
    /\ UNCHANGED servicesState

\* one call of project_period, then aggregate_to_yearly on what it returned
Next ==
    \/ Construct
    \/ ConstructFail
    \/ \E n \in 0..MaxMonths, initial \in BalanceInputs : PeriodStart(n, initial)
    \/ PeriodStep
    \/ PeriodRaise
    \/ PeriodReturn
    \/ Aggregate

Spec == Init /\ [][Next]_vars

InitCalls ==
    /\ assumptions \in CallAssumptionInputs
    /\ engine = "new"
    /\ pc = "idle"
    /\ months = 0
    /\ initial_balances = None
    /\ month_idx = 0
    /\ current_balances = EmptyDict
    /\ projections = <<>>
    /\ yearly = None
    /\ clock = ClockStart
    /\ call = None
    /\ ServicesIdle

\* the month indices a caller asks for: any index first, then the same
\* index again or the next one
CallIndices ==
    IF IsNone(call) THEN 0..MaxIndex
    ELSE {call[1].month_index, call[1].month_index + 1} \cap (0..MaxIndex)

\* direct calls of project_month on one engine, while time passes
NextCalls ==
    \/ Construct
    \/ ConstructFail
    \/ \E k \in CallIndices, previous_balances \in BalanceInputs :
           ProjectMonthCall(k, previous_balances)
    \/ Tick

SpecCalls == InitCalls /\ [][NextCalls]_vars

----------------------------------------------------------------------------
(* A year of projection: project_period over MaxYearMonths months (or one
   month less), then aggregate_to_yearly *)

YearExpenseInputs ==
    { [category_budgets |-> <<>>, monthly_expenses |-> Some(3000),
       expense_inflation_rate |-> 0],
      [category_budgets |-> <<>>, monthly_expenses |-> Some(2000),
       expense_inflation_rate |-> 0] }

YearOneTimeInputs == { <<>>, << Cost("trip", 1000, 1) >> }

YearWeights ==
    { Some([b \in {"cash", "invest"} |-> 500]),
      Some([b \in {"invest"} |-> 1000]) }

YearReturns ==
    { None,
      Some([b \in {"invest"} |-> 4095]) }

YearBufferInputs ==
    { [enforce_cash_buffer |-> FALSE, cash_buffer_bucket_name |-> Some("cash"),
       minimum_cash_buffer_months |-> 6],
      [enforce_cash_buffer |-> TRUE, cash_buffer_bucket_name |-> Some("cash"),
       minimum_cash_buffer_months |-> 2] }

YearStartDates == { None, Some(<<2026, 1>>), Some(<<2026, 11>>) }

\* bucket returns and display currencies as they are combined: a growing
\* bucket comes without an FXMapping
YearReturnsAndFx ==
    { p \in YearReturns \X FxInputs : IsNone(p[1]) \/ IsNone(p[2]) }

YearAssumptionInputs ==
    { [base_currency |-> "SGD", start_date |-> d,
       monthly_salary |-> 5000, annual_bonus |-> 0,
       other_income |-> 0, tax_rate |-> 200,
       category_budgets |-> e.category_budgets,
       expense_inflation_rate |-> e.expense_inflation_rate,
       monthly_expenses |-> e.monthly_expenses,
       one_time_costs |-> o,
       allocation_weights |-> w, bucket_returns |-> rf[1],
       minimum_cash_buffer_months |-> p.minimum_cash_buffer_months,
       cash_buffer_bucket_name |-> p.cash_buffer_bucket_name,
       enforce_cash_buffer |-> p.enforce_cash_buffer,
       fx_mapping |-> rf[2]] :
      e \in YearExpenseInputs, o \in YearOneTimeInputs, w \in YearWeights,
      rf \in YearReturnsAndFx, p \in YearBufferInputs, d \in YearStartDates }

\* initial_balances of a year's project_period: none, a funded cash account
\* next to an unweighted bucket, an overdrawn cash account
YearBalanceInputs ==
    { None,
      Some([b \in {"cash", "other"} |-> IF b = "cash" THEN 4000 ELSE 2000]),
      Some([b \in {"cash", "invest"} |-> IF b = "cash" THEN 0 - 2000 ELSE 1000]) }

InitYear ==
    /\ assumptions \in YearAssumptionInputs
    /\ engine = "new"
    /\ pc = "idle"
    /\ months = 0
    /\ initial_balances = None
    /\ month_idx = 0
    /\ current_balances = EmptyDict
    /\ projections = <<>>
    /\ yearly = None
    /\ clock = ClockStart
    /\ call = None
    /\ ServicesIdle

NextYear ==
    \/ Construct
    \/ \E n \in {MaxYearMonths - 1, MaxYearMonths},
          initial \in YearBalanceInputs : PeriodStart(n, initial)
    \/ PeriodStep
    \/ PeriodReturn
    \/ Aggregate

SpecYear == InitYear /\ [][NextYear]_vars

----------------------------------------------------------------------------
(* The ledger: Ledger.add_account and Ledger.add_transaction of
   src/src/domain/ledger.py, Transaction.is_balanced of
   src/src/domain/models.py.  A base_amount is an integer number of
   thousandths of a currency unit. *)

\* Decimal("0.01")
BalanceLimit == 10

Posting(account_id, base_amount) ==
    [account_id |-> account_id, base_amount |-> base_amount]

\* sum(p.base_amount for p in self.postings)
PostingTotal(tx) ==
    SumValues([i \in 1..Len(tx.postings) |-> tx.postings[i].base_amount])

\* a total of exactly 0.01 accepted
IsBalancedInclusive(tx) == Abs(PostingTotal(tx)) <= BalanceLimit

\* Transaction.is_balanced
IsBalanced(tx) == Abs(PostingTotal(tx)) < BalanceLimit

AccountInputs ==
    { [id |-> i, type |-> t] :
        i \in {"a1", "a2"}, t \in {"asset", "liability"} }

PostingAmounts == {0 - 1000, 0 - 5, 5, 10, 1000}

PostingLists ==
    {<<>>}
    \cup { <<Posting("a1", x)>> : x \in PostingAmounts }
    \cup { <<Posting("a1", x), Posting("a2", y)>> :
             x \in PostingAmounts, y \in PostingAmounts }

TransactionInputs ==
    { [id |-> i, postings |-> ps] : i \in {"t1", "t2"}, ps \in PostingLists }

\* no projection engine exists
EngineAbsent ==
    /\ assumptions = None
    /\ engine = "absent"
    /\ pc = "idle"
    /\ months = 0
    /\ initial_balances = None
    /\ month_idx = 0
    /\ current_balances = EmptyDict
    /\ projections = <<>>
    /\ yearly = None
    /\ clock = ClockStart
    /\ call = None

\* what the ledger's operations leave alone
outsideLedger ==
    <<assumptions, engine, pc, months, initial_balances, month_idx,
      current_balances, projections, yearly, clock, call,
      scenarios, created, request>>

\* Ledger.__init__
InitLedger ==
    /\ EngineAbsent
    /\ ServicesIdle

\* Ledger.add_account
AddAccount(account) ==
    /\ accounts' = Put(accounts, account.id, account)
    /\ ledger_call' = Some([op |-> "add_account", argument |-> account,
                            raised |-> "none"])
    /\ UNCHANGED <<transactions, outsideLedger>>

\* Ledger.add_transaction
AddTransaction(transaction) ==
    /\ IF ~IsBalanced(transaction)
       THEN /\ ledger_call' = Some([op |-> "add_transaction",
                                    argument |-> transaction,
                                    raised |-> "ValueError"])
            /\ UNCHANGED transactions
       ELSE /\ transactions' = Put(transactions, transaction.id, transaction)
            /\ ledger_call' = Some([op |-> "add_transaction",
                                    argument |-> transaction,
                                    raised |-> "none"])
    /\ UNCHANGED <<accounts, outsideLedger>>

NextLedger ==
    \/ \E account \in AccountInputs : AddAccount(account)
    \/ \E transaction \in TransactionInputs : AddTransaction(transaction)

SpecLedger == InitLedger /\ [][NextLedger]_vars

----------------------------------------------------------------------------
(* The saved scenarios of the REST surface *)

\* the workspaces of the requests (get_workspace_id)
Workspaces == {"w1", "w2"}

\* a row of the scenarios table
Scenario(workspace_id, name, is_active) ==
    [workspace_id |-> workspace_id, name |-> name, is_active |-> is_active]

\* the request bodies: ScenarioCreate reduced to name and is_active
ScenarioInputs == [name : {"base", "lean"}, is_active : BOOLEAN]

\* the primary keys: the next uuid is modelled by the next number
ScenarioIds == 1..MaxScenarios

\* the active rows of every workspace switched off
DeactivateEverywhere(rows, workspace_id) ==
    [id \in DOMAIN rows |-> [rows[id] EXCEPT !.is_active = FALSE]]

\* ScenarioRepository.deactivate_all
DeactivateAll(rows, workspace_id) ==
    [id \in DOMAIN rows |->
        IF rows[id].workspace_id = workspace_id /\ rows[id].is_active
        THEN [rows[id] EXCEPT !.is_active = FALSE]
        ELSE rows[id]]

\* ScenarioRepository.activate
Activate(rows, scenario_id, workspace_id) ==
    LET off == DeactivateAll(rows, workspace_id)
    IN IF scenario_id \in DOMAIN off /\ off[scenario_id].workspace_id = workspace_id
       THEN [off EXCEPT ![scenario_id].is_active = TRUE]
       ELSE off

\* ScenarioRepository.delete
Delete(rows, scenario_id) == [id \in DOMAIN rows \ {scenario_id} |-> rows[id]]

\* not scenario or scenario.workspace_id != workspace_id
NotFound(scenario_id, workspace_id) ==
    \/ scenario_id \notin DOMAIN scenarios
    \/ scenarios[scenario_id].workspace_id # workspace_id

Request(op, workspace_id, scenario_id, status) ==
    Some([op |-> op, workspace_id |-> workspace_id, scenario_id |-> scenario_id,
          status |-> status])

\* what the scenario handlers leave alone
outsideScenarios ==
    <<assumptions, engine, pc, months, initial_balances, month_idx,
      current_balances, projections, yearly, clock, call,
      accounts, transactions, ledger_call>>

\* an empty scenarios table
InitScenarios == EngineAbsent /\ ServicesIdle

\* POST /scenarios
SaveScenario(workspace_id, data) ==
    /\ created < MaxScenarios
    /\ LET rows == IF data.is_active THEN DeactivateAll(scenarios, workspace_id)
                   ELSE scenarios
       IN scenarios' = Put(rows, created + 1,
                           Scenario(workspace_id, data.name, data.is_active))
    /\ created' = created + 1
    /\ request' = Request("save", workspace_id, created + 1, 200)
    /\ UNCHANGED outsideScenarios

\* PUT /scenarios/{scenario_id}
UpdateScenario(scenario_id, workspace_id, data) ==
    /\ IF NotFound(scenario_id, workspace_id)
       THEN /\ request' = Request("update", workspace_id, scenario_id, 404)
            /\ UNCHANGED scenarios
       ELSE /\ LET rows == IF data.is_active /\ ~scenarios[scenario_id].is_active
                           THEN DeactivateAll(scenarios, workspace_id)
                           ELSE scenarios
               IN scenarios' = [rows EXCEPT ![scenario_id].name = data.name,
                                            ![scenario_id].is_active = data.is_active]
            /\ request' = Request("update", workspace_id, scenario_id, 200)
    /\ UNCHANGED <<created, outsideScenarios>>

\* PATCH /scenarios/{scenario_id}/activate
ActivateScenario(scenario_id, workspace_id) ==
    /\ IF NotFound(scenario_id, workspace_id)
       THEN /\ request' = Request("activate", workspace_id, scenario_id, 404)
            /\ UNCHANGED scenarios
       ELSE /\ scenarios' =
                  IF scenarios[scenario_id].is_active
                  THEN [scenarios EXCEPT ![scenario_id].is_active = FALSE]
                  ELSE Activate(scenarios, scenario_id, workspace_id)
            /\ request' = Request("activate", workspace_id, scenario_id, 200)
    /\ UNCHANGED <<created, outsideScenarios>>

\* DELETE /scenarios/{scenario_id}
DeleteScenario(scenario_id, workspace_id) ==
    /\ IF NotFound(scenario_id, workspace_id)
       THEN /\ request' = Request("delete", workspace_id, scenario_id, 404)
            /\ UNCHANGED scenarios
       ELSE /\ scenarios' = Delete(scenarios, scenario_id)
            /\ request' = Request("delete", workspace_id, scenario_id, 200)
    /\ UNCHANGED <<created, outsideScenarios>>

NextScenarios ==
    \/ \E w \in Workspaces, data \in ScenarioInputs : SaveScenario(w, data)
    \/ \E id \in ScenarioIds, w \in Workspaces, data \in ScenarioInputs :
           UpdateScenario(id, w, data)
    \/ \E id \in ScenarioIds, w \in Workspaces : ActivateScenario(id, w)
    \/ \E id \in ScenarioIds, w \in Workspaces : DeleteScenario(id, w)

SpecScenarios == InitScenarios /\ [][NextScenarios]_vars

----------------------------------------------------------------------------
(* Helpers for stating properties *)

\* the prior balances handed to the k-th call of project_month (k = 1 is month 0)
PriorOf(k) ==
    IF k = 1 THEN StartBalances(assumptions, initial_balances)
    ELSE projections[k - 1].bucket_balances

Ran == 1..Len(projections)

\* the amount that is split by the weights in the k-th month
SplitAmount(k) ==
    IF PriorityApplies(assumptions, k - 1, PriorOf(k))
    THEN Savings(assumptions, k - 1) - ToCash(assumptions, k - 1, PriorOf(k))
    ELSE Savings(assumptions, k - 1)

\* every quotient and product of the model is exact on the inputs drawn
ArithmeticExact ==
    engine = "ready" =>
        /\ assumptions.annual_bonus % 12 = 0
        /\ (GrossIncome(assumptions) * assumptions.tax_rate) % RateDen = 0
        /\ \A k \in Ran : \A b \in DOMAIN Weights(assumptions) :
               (SplitAmount(k) * Weights(assumptions)[b]) % RateDen = 0

\* the sum of the amounts of the one-time costs whose month_index is m
CostsDueIn(m) ==
    LET costs == assumptions.one_time_costs
    IN SumKeys([i \in 1..Len(costs) |-> costs[i].amount],
               {i \in 1..Len(costs) : costs[i].month_index = m})

\* the buffer rule does not select the proportional branch by its flags alone
ProportionalMode ==
    \/ ~assumptions.enforce_cash_buffer
    \/ IsNone(assumptions.cash_buffer_bucket_name)
    \/ assumptions.cash_buffer_bucket_name = Some("")

----------------------------------------------------------------------------
(* C1 *)

\* C1: every projected month has savings = max(0, net_income - expenses -
\* one_time_costs); savings are never negative, also when expenses plus
\* one-time costs exceed net income, and the one-time cost total is the full
\* sum of the costs due in that month.
C1_SavingsClamped ==
    \A k \in Ran :
        LET p    == projections[k]
            left == p.net_income - p.expenses - p.one_time_costs
        IN /\ p.savings = (IF left > 0 THEN left ELSE 0)
           /\ p.savings >= 0
           /\ p.one_time_costs = CostsDueIn(k - 1)

\* a month whose one-time costs alone exceed net income: savings clamp to 0
C1_Witness ==
    \E k \in Ran :
        LET p == projections[k]
        IN /\ p.net_income > 0
           /\ p.one_time_costs > p.net_income
           /\ p.savings = 0

----------------------------------------------------------------------------
(* C2 *)

\* C2 (as claimed): in proportional mode, for every accepted assumption set
\* (weights empty or summing to 1 within 0.001) and every month,
\* |sum(bucket_allocations) - savings| <= 0.001 * savings.
C2_Original ==
    (engine = "ready" /\ ProportionalMode) =>
        \A k \in Ran :
            LET p == projections[k]
            IN Abs(SumValues(p.bucket_allocations) - p.savings) * RateDen
                   <= Tolerance * p.savings

\* C2 (amended): in proportional mode, when allocation_weights is non-empty
\* the sum of bucket_allocations is within 0.001 * savings of savings; when it
\* is empty there are no allocations and the sum is 0.
C2_AllocationSum ==
    (engine = "ready" /\ ProportionalMode) =>
        \A k \in Ran :
            LET p == projections[k]
            IN IF DOMAIN Weights(assumptions) # {}
               THEN Abs(SumValues(p.bucket_allocations) - p.savings) * RateDen
                        <= Tolerance * p.savings
               ELSE /\ p.bucket_allocations = EmptyDict
                    /\ SumValues(p.bucket_allocations) = 0

\* a proportional month with positive savings whose weights sum to 1.001
C2_Witness ==
    /\ engine = "ready"
    /\ ProportionalMode
    /\ SumValues(Weights(assumptions)) = RateDen + Tolerance
    /\ \E k \in Ran :
           /\ projections[k].savings > 0
           /\ SumValues(projections[k].bucket_allocations) > projections[k].savings

----------------------------------------------------------------------------
(* C3 *)

\* the weights as handed to the constructor are non-empty and their sum is
\* further than 0.001 from 1
OffTolerance(w) ==
    /\ ~IsNone(w)
    /\ DOMAIN w[1] # {}
    /\ \/ SumValues(w[1]) < RateDen - 1
       \/ SumValues(w[1]) > RateDen + 1

\* C3: construction raises exactly when allocation_weights is non-empty and
\* |sum - 1| > 0.001 (None, empty, and sums 0.999, 1 and 1.001 construct),
\* whatever the other fields are; the error comes before any month is
\* projected.
C3_ConstructionRejectsExactly ==
    [][ /\ engine = "new" =>
            /\ engine' \in {"ready", "error"}
            /\ (engine' = "error") <=> OffTolerance(assumptions.allocation_weights)
        /\ engine' # "ready" => (projections' = <<>> /\ pc' = "idle") ]_vars

\* construction raised on weights summing to 0.998, just beyond the tolerance
C3_Witness ==
    /\ engine = "error"
    /\ SumValues(Weights(assumptions)) = RateDen - 2

----------------------------------------------------------------------------
(* C4 - C7: the cash-buffer rule *)

\* a cash_buffer_bucket_name is configured
BufferNamed ==
    /\ ~IsNone(assumptions.cash_buffer_bucket_name)
    /\ assumptions.cash_buffer_bucket_name # Some("")

Buffer == assumptions.cash_buffer_bucket_name[1]

\* target = this month's expenses * minimum_cash_buffer_months
TargetOf(k) == projections[k].expenses * assumptions.minimum_cash_buffer_months

PriorBufferOf(k) == Get(PriorOf(k), Buffer, 0)

\* the k-th month ran with the buffer rule on and the buffer below target
BelowTarget(k) ==
    /\ assumptions.enforce_cash_buffer
    /\ BufferNamed
    /\ PriorBufferOf(k) < TargetOf(k)

\* to_buffer = min(savings, target - prior_buffer_balance)
ToBufferOf(k) ==
    IF projections[k].savings <= TargetOf(k) - PriorBufferOf(k)
    THEN projections[k].savings
    ELSE TargetOf(k) - PriorBufferOf(k)

\* C4 (stated for non-empty allocation_weights; a bucket without a weight or
\* without a reported allocation counts as 0): in a month with the buffer rule
\* on and the buffer below target, the buffer bucket is allocated
\* to_buffer + remainder * weight[buffer] and every other bucket
\* remainder * weight[bucket]; when savings <= target - prior the buffer
\* receives all savings and every other bucket 0.
C4_BufferPriority ==
    (engine = "ready" /\ DOMAIN Weights(assumptions) # {}) =>
        \A k \in Ran :
            LET p         == projections[k]
                w         == Weights(assumptions)
                remainder == p.savings - ToBufferOf(k)
            IN BelowTarget(k) =>
                /\ Get(p.bucket_allocations, Buffer, 0) * RateDen
                       = ToBufferOf(k) * RateDen + remainder * Get(w, Buffer, 0)
                /\ \A b \in DOMAIN p.bucket_allocations \ {Buffer} :
                       p.bucket_allocations[b] * RateDen = remainder * w[b]
                /\ p.savings <= TargetOf(k) - PriorBufferOf(k) =>
                       /\ Get(p.bucket_allocations, Buffer, 0) = p.savings
                       /\ \A b \in DOMAIN p.bucket_allocations \ {Buffer} :
                              p.bucket_allocations[b] = 0

\* C5 (stated for non-empty allocation_weights): in a month with the buffer
\* rule on and the buffer below target, the allocation reported for the
\* buffer bucket (0 when none is reported) is at least to_buffer.
C5_BufferGetsPriorityAmount ==
    (engine = "ready" /\ DOMAIN Weights(assumptions) # {}) =>
        \A k \in Ran :
            BelowTarget(k) =>
                Get(projections[k].bucket_allocations, Buffer, 0) >= ToBufferOf(k)

\* C6: whenever the buffer priority does not apply (flag off, no bucket name,
\* or prior buffer balance >= target) every bucket receives
\* savings * weight, and allocations and balances are those of the same
\* assumptions with enforce_cash_buffer = false.
C6_ProportionalWithoutPriority ==
    engine = "ready" =>
        \A k \in Ran :
            LET p     == projections[k]
                w     == Weights(assumptions)
                plain == ProjectMonth(
                             [assumptions EXCEPT !.enforce_cash_buffer = FALSE],
                             k - 1, PriorOf(k))
            IN ~BelowTarget(k) =>
                /\ DOMAIN p.bucket_allocations = DOMAIN w
                /\ \A b \in DOMAIN w :
                       p.bucket_allocations[b] * RateDen = p.savings * w[b]
                /\ p.bucket_allocations = plain.bucket_allocations
                /\ p.bucket_balances = plain.bucket_balances

\* the buffer rule is on, the buffer target is positive and already met, and
\* positive savings are split by the weights over two buckets
C6_Witness ==
    /\ engine = "ready"
    /\ assumptions.enforce_cash_buffer
    /\ BufferNamed
    /\ \E k \in Ran :
           /\ TargetOf(k) > 0
           /\ PriorBufferOf(k) >= TargetOf(k)
           /\ projections[k].savings > 0
           /\ Cardinality(DOMAIN projections[k].bucket_allocations) = 2
           /\ projections[k].bucket_allocations["invest"] > 0

\* no expense line inflates
ZeroInflation ==
    /\ assumptions.expense_inflation_rate = 0
    /\ \A i \in 1..Len(assumptions.category_budgets) :
           LET cb == assumptions.category_budgets[i]
           IN /\ cb.inflation_override \in {None, Some(0)}
              /\ \A j \in 1..Len(cb.subcategory_budgets) :
                     cb.subcategory_budgets[j].inflation_override \in {None, Some(0)}

\* the preconditions of C7 on a run of at least one month
GradualBuildupCase ==
    /\ engine = "ready"
    /\ assumptions.enforce_cash_buffer
    /\ BufferNamed
    /\ ZeroInflation
    /\ DOMAIN Weights(assumptions) # {}
    /\ \A b \in DOMAIN Weights(assumptions) :
           /\ Weights(assumptions)[b] >= 0
           /\ Get(Returns(assumptions), b, 0) = 0
    /\ Len(projections) >= 1
    /\ PriorBufferOf(1) = 0
    /\ projections[1].savings > 0
    /\ \A k \in Ran : projections[k].savings = projections[1].savings

\* C7 (stated for non-empty allocation_weights): with the buffer enforced,
\* zero inflation, zero returns, non-negative weights, constant positive
\* savings S and a starting buffer balance of 0: in every month where prior
\* buffer balance + S <= target the buffer is allocated the whole S (balance
\* S, 2S, 3S, ...); the buffer balance after month k is at least
\* min(target, k * S), so it reaches the target after finitely many months;
\* and in every month after the first month whose end balance is >= target
\* each bucket is allocated S * weight.
C7_GradualBuildup ==
    GradualBuildupCase =>
        LET S == projections[1].savings
            w == Weights(assumptions)
        IN \A k \in Ran :
               LET p      == projections[k]
                   endBal == Get(p.bucket_balances, Buffer, 0)
               IN /\ PriorBufferOf(k) + S <= TargetOf(k) =>
                         /\ Get(p.bucket_allocations, Buffer, 0) = S
                         /\ endBal = k * S
                  /\ endBal >= Min(TargetOf(k), k * S)
                  /\ (\E j \in 1..(k - 1) :
                          Get(projections[j].bucket_balances, Buffer, 0)
                              >= TargetOf(j)) =>
                         \A b \in DOMAIN w :
                             p.bucket_allocations[b] * RateDen = S * w[b]

----------------------------------------------------------------------------
(* C8 - C10 *)

\* initial_balances as a mapping: None supplies no bucket
Supplied == IF IsNone(initial_balances) THEN EmptyDict ELSE initial_balances[1]

\* C8: project_period(N, initial) returns exactly N projections, for months
\* 0..N-1 in increasing order; projection 0 is project_month(0, initial) with
\* every weighted bucket that initial does not supply counted as 0, and
\* projection k >= 1 is project_month(k, bucket_balances of projection k-1).
C8_PeriodThreadsBalances ==
    /\ Len(projections) = month_idx
    /\ month_idx <= months
    /\ pc = "done" => Len(projections) = months
    /\ \A k \in Ran :
           /\ projections[k].period = Period(assumptions, k - 1)
           /\ projections[k] =
                  ProjectMonth(assumptions, k - 1,
                               IF k = 1 THEN Supplied
                               ELSE projections[k - 1].bucket_balances)

\* a finished period of at least two months started from balances that supply
\* only one of two weighted buckets, with balances that change between months
C8_Witness ==
    /\ pc = "done"
    /\ months >= 2
    /\ initial_balances = Some([b \in {"cash"} |-> 16000])
    /\ DOMAIN Weights(assumptions) = {"cash", "invest"}
    /\ projections[2].bucket_balances # projections[1].bucket_balances
    /\ projections[1].bucket_balances["cash"] # 16000

\* C9: for each weighted bucket new_balance = prior_balance * g + allocation,
\* g the twelfth root of 1 + annual return (1 for a return of 0 or a bucket
\* missing from bucket_returns): the contribution is added un-grown.  With
\* prior balance 0 the end balance is the allocation, and with a zero return
\* the balance is the previous balance plus the allocation.
C9_GrowThenContribute ==
    engine = "ready" =>
        \A k \in Ran :
            LET p == projections[k]
            IN /\ DOMAIN p.bucket_balances = DOMAIN Weights(assumptions)
               /\ \A b \in DOMAIN p.bucket_balances :
                      LET prior == Get(PriorOf(k), b, 0)
                          r     == IF b \in DOMAIN Returns(assumptions)
                                   THEN Returns(assumptions)[b] ELSE 0
                      IN /\ \E g \in 0..3 :
                                /\ Pow(g, 12) = 1 + r
                                /\ p.bucket_balances[b]
                                       = prior * g + p.bucket_allocations[b]
                         /\ r = 0 => p.bucket_balances[b]
                                         = prior + p.bucket_allocations[b]
                         /\ prior = 0 => p.bucket_balances[b]
                                             = p.bucket_allocations[b]

\* a bucket with a positive prior balance, a monthly growth factor of 2 and a
\* positive contribution
C9_Witness ==
    /\ engine = "ready"
    /\ \E k \in Ran : \E b \in DOMAIN projections[k].bucket_balances :
           /\ Get(PriorOf(k), b, 0) > 0
           /\ Get(Returns(assumptions), b, 0) = 4095
           /\ projections[k].bucket_allocations[b] > 0
           /\ projections[k].bucket_balances[b]
                  = 2 * Get(PriorOf(k), b, 0) + projections[k].bucket_allocations[b]

\* C10: every month reports gross_income = monthly_salary + annual_bonus / 12
\* + other_income, taxes = gross_income * tax_rate and net_income =
\* gross_income - taxes, the same three values in every month of a period.
C10_IncomeAfterTax ==
    \A k \in Ran :
        LET p == projections[k]
        IN /\ 12 * p.gross_income
                  = 12 * assumptions.monthly_salary + assumptions.annual_bonus
                    + 12 * assumptions.other_income
           /\ RateDen * p.taxes = p.gross_income * assumptions.tax_rate
           /\ p.net_income = p.gross_income - p.taxes
           /\ p.taxes + p.net_income = p.gross_income
           /\ p.gross_income = projections[1].gross_income
           /\ p.taxes = projections[1].taxes
           /\ p.net_income = projections[1].net_income

\* the scenario of the specification at sixteen times its amounts (salary
\* 80000, tax 20%, flat expenses 48000) in a period of at least two months
C10_Witness ==
    /\ Len(projections) >= 2
    /\ assumptions.annual_bonus = 0
    /\ projections[1].gross_income = 80000
    /\ projections[1].taxes = 16000
    /\ projections[1].net_income = 64000
    /\ projections[1].expenses = 48000
    /\ projections[1].savings = 16000
    /\ projections[2].net_income = 64000

----------------------------------------------------------------------------
(* Properties of direct calls of project_month *)

Called == (~IsNone(call)) /\ ~call[1].raised

\* the MonthlyProjection the last call returned, and its month index
Returned == call[1].result[1]

CalledIndex == call[1].month_index

\* every product of the last call is exact on the inputs drawn
ArithmeticExactCalls ==
    Called =>
        /\ (GrossIncome(assumptions) * assumptions.tax_rate) % RateDen = 0
        /\ \A b \in DOMAIN Weights(assumptions) :
               (Returned.savings * Weights(assumptions)[b]) % RateDen = 0
        /\ ~IsNone(assumptions.fx_mapping) =>
               \A c \in DOMAIN Returned.net_income_fx :
                   LET r == FxRate(assumptions.fx_mapping[1], c)
                   IN /\ (Returned.net_income * r) % RateDen = 0
                      /\ (SumValues(Returned.bucket_balances) * r) % RateDen = 0

\* the twelfth root as the claim words it: some g with g^12 = 1 + rate
Compounded(amount, rate, k) ==
    CHOOSE x \in {amount * Pow(g, k) : g \in {g \in 0..3 : Pow(g, 12) = 1 + rate}} : TRUE

\* C11: the expense path is chosen by one rule.  With category budgets the
\* expenses and the breakdown are those of the same assumptions without
\* monthly_expenses (the flat amount is ignored); without category budgets and
\* with monthly_expenses the expenses are the flat amount compounded at the
\* global rate and the breakdown is empty; with neither, expenses are 0 and
\* the breakdown is empty.
C11_ExpensePathChoice ==
    Called =>
        LET a == assumptions
            k == CalledIndex
            withoutFlat == [a EXCEPT !.monthly_expenses = None]
        IN /\ a.category_budgets # <<>> =>
                  /\ Returned.expenses = ExpensePath(withoutFlat, k).total
                  /\ Returned.expense_breakdown = ExpensePath(withoutFlat, k).breakdown
                  /\ DOMAIN Returned.expense_breakdown # {}
           /\ (a.category_budgets = <<>> /\ ~IsNone(a.monthly_expenses)) =>
                  /\ a.expense_inflation_rate >= 0 - 1 =>
                         Returned.expenses
                           = Compounded(a.monthly_expenses[1],
                                        a.expense_inflation_rate, k)
                  /\ Returned.expense_breakdown = EmptyDict
           /\ (a.category_budgets = <<>> /\ IsNone(a.monthly_expenses)) =>
                  /\ Returned.expenses = 0
                  /\ Returned.expense_breakdown = EmptyDict

\* category budgets together with a flat amount of 32000: month 1 reports
\* the categories' 32000 = 2 * (8000 + 4000 + 4000), not the flat 64000
C11_Witness ==
    /\ Called
    /\ CalledIndex = 1
    /\ assumptions.category_budgets # <<>>
    /\ assumptions.monthly_expenses = Some(32000)
    /\ assumptions.expense_inflation_rate = 4095
    /\ Returned.expenses = 32000
    /\ Returned.expense_breakdown["rent"] = 16000

\* the assumptions with the monthly_amount of the i-th category set to zero
WithoutAmount(a, i) ==
    [a EXCEPT !.category_budgets[i].monthly_amount = 0]

\* what the last call returns on the assumptions a, at the time of that call
SameCall(a) ==
    ProjectMonth(a, CalledIndex, CallBalances(a, call[1].previous_balances))

\* the sum of the inflated subcategory amounts of category cb
SubTotal(a, cb, k) ==
    SumValues([j \in 1..Len(cb.subcategory_budgets) |->
                   SubExpense(a, cb, cb.subcategory_budgets[j], k)])

\* C12: for a category with subcategories, monthly_amount has no effect on
\* any output, each subcategory's inflated amount is in expense_breakdown
\* under "category_id:subcategory_id" and their sum under category_id; a
\* category without subcategories has its own inflated monthly_amount under
\* category_id; at month 0 each entry is the un-inflated budget amount.
C12_SubcategoryRollup ==
    Called =>
        LET a  == assumptions
            k  == CalledIndex
            bd == Returned.expense_breakdown
        IN \A i \in 1..Len(a.category_budgets) :
             LET cb == a.category_budgets[i]
             IN IF cb.subcategory_budgets # <<>>
                THEN /\ call[1].at = clock => Returned = SameCall(WithoutAmount(a, i))
                     /\ \A j \in 1..Len(cb.subcategory_budgets) :
                          LET sb == cb.subcategory_budgets[j]
                          IN /\ Get(bd, CompositeKey(cb, sb), 0 - 1)
                                   = SubExpense(a, cb, sb, k)
                             /\ k = 0 => Get(bd, CompositeKey(cb, sb), 0 - 1)
                                            = sb.monthly_amount
                     /\ Get(bd, cb.category_id, 0 - 1) = SubTotal(a, cb, k)
                ELSE /\ Get(bd, cb.category_id, 0 - 1)
                           = cb.monthly_amount
                               * InflationFactor(CatInflationRate(a, cb), k)
                     /\ k = 0 => Get(bd, cb.category_id, 0 - 1) = cb.monthly_amount

\* the keys project_month writes into expense_breakdown, one per write
BreakdownKeys(a) ==
    LET cats == a.category_budgets
        KeysOf(cb) ==
            [j \in 1..Len(cb.subcategory_budgets) |->
                 CompositeKey(cb, cb.subcategory_budgets[j])]
            \o <<cb.category_id>>
        RECURSIVE Flat(_)
        Flat(i) == IF i > Len(cats) THEN <<>> ELSE KeysOf(cats[i]) \o Flat(i + 1)
    IN Flat(1)

\* no two writes into expense_breakdown use the same key
DistinctKeys(a) ==
    LET keys == BreakdownKeys(a)
    IN \A i, j \in 1..Len(keys) : keys[i] = keys[j] => i = j

\* the precedence by presence: an override that is present wins, whatever
\* its value
CatRateByPresence(a, cb) ==
    IF ~IsNone(cb.inflation_override) THEN cb.inflation_override[1]
    ELSE a.expense_inflation_rate

SubRateByPresence(a, cb, sb) ==
    IF ~IsNone(sb.inflation_override) THEN sb.inflation_override[1]
    ELSE CatRateByPresence(a, cb)

\* C13: an expense line inflates at its subcategory's override when one is
\* present (any value, 0 included), else at its category's override when one
\* is present (any value, 0 included), else at the global rate; a category
\* without subcategories uses its own override when present, else the global
\* rate.  Stated for budgets whose breakdown keys are all distinct.
C13_OverridePrecedence ==
    (Called /\ DistinctKeys(assumptions)) =>
        LET a  == assumptions
            k  == CalledIndex
            bd == Returned.expense_breakdown
        IN \A i \in 1..Len(a.category_budgets) :
             LET cb == a.category_budgets[i]
             IN IF cb.subcategory_budgets # <<>>
                THEN \A j \in 1..Len(cb.subcategory_budgets) :
                       LET sb == cb.subcategory_budgets[j]
                       IN bd[CompositeKey(cb, sb)]
                            = sb.monthly_amount
                                * InflationFactor(SubRateByPresence(a, cb, sb), k)
                ELSE bd[cb.category_id]
                       = cb.monthly_amount
                           * InflationFactor(CatRateByPresence(a, cb), k)

\* the rollup property restricted to budgets whose breakdown keys are all distinct
RollupWithDistinctKeys == DistinctKeys(assumptions) => C12_SubcategoryRollup

\* no category and no subcategory carries an inflation override
NoOverrides(a) ==
    \A i \in 1..Len(a.category_budgets) :
        LET cb == a.category_budgets[i]
        IN /\ IsNone(cb.inflation_override)
           /\ \A j \in 1..Len(cb.subcategory_budgets) :
                  IsNone(cb.subcategory_budgets[j].inflation_override)

\* the un-inflated monthly budget: the amounts of the lines that are charged
BaseAmount(a) ==
    IF a.category_budgets # <<>>
    THEN SumValues([i \in 1..Len(a.category_budgets) |->
             LET cb == a.category_budgets[i]
             IN IF cb.subcategory_budgets # <<>>
                THEN SumValues([j \in 1..Len(cb.subcategory_budgets) |->
                                    cb.subcategory_budgets[j].monthly_amount])
                ELSE cb.monthly_amount])
    ELSE IF ~IsNone(a.monthly_expenses) THEN a.monthly_expenses[1]
    ELSE 0

\* a positive global rate, no overrides and a positive budget
InflationCase ==
    /\ assumptions.expense_inflation_rate > 0
    /\ NoOverrides(assumptions)
    /\ BaseAmount(assumptions) > 0

CompoundsMonthly ==
    (Called /\ InflationCase) =>
        /\ Returned.expenses
             = Compounded(BaseAmount(assumptions),
                          assumptions.expense_inflation_rate, CalledIndex)
        /\ CalledIndex = 0 => Returned.expenses = BaseAmount(assumptions)
        /\ CalledIndex = 12 =>
               Returned.expenses
                 = BaseAmount(assumptions) * (1 + assumptions.expense_inflation_rate)

GrowsWithIndex ==
    (Called /\ Called' /\ InflationCase /\ CalledIndex < CalledIndex') =>
        Returned.expenses < Returned'.expenses

\* C14: with a positive global rate, no overrides and a positive budget,
\* expenses are amount * (1 + rate)^(month_index/12): the base amount at
\* month 0, amount * (1 + rate) at month 12, and a call for a later month
\* reports strictly larger expenses than a call for an earlier month.
C14_CompoundingInflation == []CompoundsMonthly /\ [][GrowsWithIndex]_vars

\* a flat budget of 16000 at a rate of 4095 (monthly factor 2) asked for
\* month 12: 16000 * 4096
C14_Witness ==
    /\ Called
    /\ InflationCase
    /\ CalledIndex = 12
    /\ assumptions.monthly_expenses = Some(16000)
    /\ assumptions.category_budgets = <<>>
    /\ Returned.expenses = 65536000

----------------------------------------------------------------------------
(* Properties of the one-time costs, the period labels and the yearly
   aggregation of a period projection *)

\* the one-time costs whose month_index is m, in input order
ItemsDueIn(m) ==
    SelectSeq(assumptions.one_time_costs, LAMBDA cost : cost.month_index = m)

\* the entry of one_time_costs_detail for one item
DetailOf(cost) ==
    [name |-> cost.name, amount |-> cost.amount, notes |-> cost.notes,
     category_id |-> cost.category_id]

\* the one-time costs whose month_index lies in 0..n-1
ItemsWithin(n) ==
    SelectSeq(assumptions.one_time_costs,
              LAMBDA cost : cost.month_index >= 0 /\ cost.month_index < n)

\* C15: in every month k, one_time_costs is the sum of the amounts of the
\* items whose month_index is k (0 without any) and one_time_costs_detail
\* lists exactly those items in input order; over a finished period of N
\* months every item with month_index in 0..N-1 is charged once and every
\* other item never.
C15_OneTimeCostsByMonth ==
    /\ \A k \in Ran :
         LET p   == projections[k]
             due == ItemsDueIn(k - 1)
         IN /\ p.one_time_costs
                 = SumValues([i \in 1..Len(due) |-> due[i].amount])
            /\ p.one_time_costs_detail = [i \in 1..Len(due) |-> DetailOf(due[i])]
    /\ pc = "done" =>
         LET within == ItemsWithin(months)
         IN /\ SumValues([k \in Ran |-> projections[k].one_time_costs])
                 = SumValues([i \in 1..Len(within) |-> within[i].amount])
            /\ SumValues([k \in Ran |-> Len(projections[k].one_time_costs_detail)])
                 = Len(within)

\* a finished three-month period over five items: two share month 1, one is
\* due in month 2, one after the period and one before month 0
C15_Witness ==
    /\ pc = "done"
    /\ months = 3
    /\ Len(assumptions.one_time_costs) = 5
    /\ projections[1].one_time_costs = 0
    /\ projections[2].one_time_costs = 32000
    /\ Len(projections[2].one_time_costs_detail) = 2
    /\ projections[2].one_time_costs_detail[1].name = "trip"
    /\ projections[2].one_time_costs_detail[2].name = "gift"
    /\ projections[3].one_time_costs = 32000

----------------------------------------------------------------------------
(* Failure and determinism of direct calls *)

\* C16: once the engine is constructed, a call of project_month for any
\* month index, any prior balances and any accepted assumption values does
\* not fail: it returns a MonthlyProjection.
C16_MonthNeverFails ==
    (~IsNone(call)) =>
        /\ ~call[1].raised
        /\ ~IsNone(call[1].result)

\* C17: with start_date in year Y and month M, month index k is labelled
\* YYYY-MM for year Y + floor((M - 1 + k) / 12) and month
\* ((M - 1 + k) mod 12) + 1; the labels of a period are consecutive calendar
\* months, all distinct, and December is followed by January of the next year.
C17_PeriodLabels ==
    (engine = "ready" /\ ~IsNone(assumptions.start_date)) =>
        LET Y == assumptions.start_date[1][1]
            M == assumptions.start_date[1][2]
            Label(k) == StrfYearMonth(<<Y + ((M - 1 + k) \div 12),
                                        ((M - 1 + k) % 12) + 1>>)
            Year(i)  == ParseInt(SubSeq(projections[i].period, 1, 4))
            Month(i) == ParseInt(SubSeq(projections[i].period, 6, 7))
        IN /\ \A i \in Ran :
                /\ projections[i].period = Label(i - 1)
                /\ Len(projections[i].period) = 7
                /\ projections[i].period[5] = "-"
           /\ \A i, j \in Ran : projections[i].period = projections[j].period => i = j
           /\ \A i \in Ran : i + 1 \in Ran =>
                IF Month(i) = 12
                THEN Month(i + 1) = 1 /\ Year(i + 1) = Year(i) + 1
                ELSE Month(i + 1) = Month(i) + 1 /\ Year(i + 1) = Year(i)

\* a three-month period started in November 2026: 2026-11, 2026-12, 2027-01
C17_Witness ==
    /\ pc = "done"
    /\ months = 3
    /\ assumptions.start_date = Some(<<2026, 11>>)
    /\ projections[1].period = <<"2", "0", "2", "6", "-", "1", "1">>
    /\ projections[2].period = <<"2", "0", "2", "6", "-", "1", "2">>
    /\ projections[3].period = <<"2", "0", "2", "7", "-", "0", "1">>

\* C18: with an FXMapping, net_income_fx and total_wealth_fx have exactly the
\* display currencies as keys, net_income_fx[c] = net_income * r(c) and
\* total_wealth_fx[c] = (sum of the month's end balances) * r(c), where r(c)
\* is rates[base_currency + c], or 1 when that pair has no rate; without an
\* FXMapping both maps are empty.
C18_FxMaps ==
    Called =>
        IF IsNone(assumptions.fx_mapping)
        THEN /\ Returned.net_income_fx = EmptyDict
             /\ Returned.total_wealth_fx = EmptyDict
        ELSE LET fx == assumptions.fx_mapping[1]
                 display == {fx.display_currencies[i] :
                                i \in 1..Len(fx.display_currencies)}
                 r(c) == IF (fx.base_currency \o c) \in DOMAIN fx.rates
                         THEN fx.rates[fx.base_currency \o c]
                         ELSE RateDen
             IN /\ DOMAIN Returned.net_income_fx = display
                /\ DOMAIN Returned.total_wealth_fx = display
                /\ \A c \in display :
                     /\ Returned.net_income_fx[c] * RateDen
                          = Returned.net_income * r(c)
                     /\ Returned.total_wealth_fx[c] * RateDen
                          = SumValues(Returned.bucket_balances) * r(c)

\* net income 64000 shown at 1.5 in USD and, the pair SGDEUR having no rate,
\* unconverted in EUR; the wealth of 160000 likewise
C18_Witness ==
    /\ Called
    /\ ~IsNone(assumptions.fx_mapping)
    /\ Returned.net_income_fx["USD"] = 96000
    /\ Returned.net_income_fx["EUR"] = 64000
    /\ SumValues(Returned.bucket_balances) = 160000
    /\ Returned.total_wealth_fx["USD"] = 240000
    /\ Returned.total_wealth_fx["EUR"] = 160000

\* a call step that repeats the arguments of the call before it
SameArguments ==
    /\ ~IsNone(call)
    /\ ~IsNone(call')
    /\ call'[1].month_index = call[1].month_index
    /\ call'[1].previous_balances = call[1].previous_balances

\* a MonthlyProjection with its period label blanked
WithoutPeriod(p) == [p EXCEPT !.period = <<>>]

SameOutcome ==
    SameArguments =>
        /\ call'[1].raised = call[1].raised
        /\ call'[1].result = call[1].result

\* C19 as stated: two calls project_month(k, balances) on one engine, made
\* at any two times, return results equal in every field, the period label
\* included.
C19_Original == [][SameOutcome]_vars

SameOutcomeButLabel ==
    SameArguments =>
        /\ call'[1].raised = call[1].raised
        /\ ~call[1].raised =>
             LET p == call[1].result[1]
                 q == call'[1].result[1]
                 k == call[1].month_index
             IN /\ WithoutPeriod(q) = WithoutPeriod(p)
                /\ IF IsNone(assumptions.start_date)
                   THEN /\ p.period = StrfYearMonth(AddMonths(call[1].at, k))
                        /\ q.period = StrfYearMonth(AddMonths(call'[1].at, k))
                        /\ call'[1].at = call[1].at => q.period = p.period
                   ELSE q.period = p.period

\* C19 amended: two calls with the same arguments both fail or return results
\* equal in every field other than period; with a start_date the labels are
\* equal too; without one each label is the month k months after the calendar
\* month of its call, so the labels agree when the calls fall in one month.
C19_DeterministicButLabel == [][SameOutcomeButLabel]_vars

\* a call for month 1 made after the clock left November 2026, on an engine
\* started in 2026-11: the label is still 2026-12
C19_Witness ==
    /\ Called
    /\ call[1].at # ClockStart
    /\ assumptions.start_date = Some(<<2026, 11>>)
    /\ CalledIndex = 1
    /\ Returned.period = <<"2", "0", "2", "6", "-", "1", "2">>

\* the same call on an engine without start_date: the label follows the clock
LabelFollowsClock ==
    /\ Called
    /\ call[1].at = <<2026, 12>>
    /\ IsNone(assumptions.start_date)
    /\ CalledIndex = 1
    /\ Returned.period = <<"2", "0", "2", "7", "-", "0", "1">>

\* the calendar year of the i-th month of the period, from the start date
CalendarYear(i) == AddMonths(StartDate(assumptions), i - 1)[1]

\* the months of the period that fall in calendar year y
MonthsIn(y) == {i \in Ran : CalendarYear(i) = y}

\* C20: aggregate_to_yearly returns [] for an empty series and otherwise one
\* YearlyProjection per calendar year of the period labels, in ascending year
\* order; each year's gross_income, taxes, net_income, expenses,
\* one_time_costs and savings are the sums over the months of that year, and
\* bucket_contributions[b] is the sum of those months' allocations to b, so
\* the totals over all years equal the totals over all months.
C20_YearlyAggregation ==
    (~IsNone(yearly)) =>
        LET ys == yearly[1]
            Total(field(_), S) == SumKeys([i \in Ran |-> field(projections[i])], S)
            Gross(p) == p.gross_income
            Tax(p) == p.taxes
            Net(p) == p.net_income
            Exp(p) == p.expenses
            Otc(p) == p.one_time_costs
            Sav(p) == p.savings
        IN /\ projections = <<>> => ys = <<>>
           /\ {ys[j].year : j \in 1..Len(ys)} = {CalendarYear(i) : i \in Ran}
           /\ \A j \in 1..Len(ys) : j + 1 <= Len(ys) => ys[j].year < ys[j + 1].year
           /\ \A j \in 1..Len(ys) :
                LET S == MonthsIn(ys[j].year)
                IN /\ S # {}
                   /\ ys[j].gross_income = Total(Gross, S)
                   /\ ys[j].taxes = Total(Tax, S)
                   /\ ys[j].net_income = Total(Net, S)
                   /\ ys[j].expenses = Total(Exp, S)
                   /\ ys[j].one_time_costs = Total(Otc, S)
                   /\ ys[j].savings = Total(Sav, S)
                   /\ DOMAIN ys[j].bucket_contributions = DOMAIN Weights(assumptions)
                   /\ \A b \in DOMAIN Weights(assumptions) :
                        ys[j].bucket_contributions[b]
                          = SumKeys([i \in Ran |->
                                        projections[i].bucket_allocations[b]], S)
           /\ SumValues([j \in 1..Len(ys) |-> ys[j].savings]) = Total(Sav, Ran)
           /\ SumValues([j \in 1..Len(ys) |-> ys[j].expenses]) = Total(Exp, Ran)
           /\ SumValues([j \in 1..Len(ys) |-> ys[j].gross_income]) = Total(Gross, Ran)

\* three months from November 2026 aggregated into 2026 (two months) and 2027
\* (one month), with savings and allocations in both years
C20_Witness ==
    /\ pc = "aggregated"
    /\ months = 3
    /\ Len(yearly[1]) = 2
    /\ yearly[1][1].year = 2026
    /\ yearly[1][2].year = 2027
    /\ yearly[1][1].savings = projections[1].savings + projections[2].savings
    /\ yearly[1][2].savings = projections[3].savings
    /\ projections[1].savings > 0
    /\ projections[3].savings > 0
    /\ yearly[1][1].gross_income = 160000
    /\ DOMAIN yearly[1][1].bucket_contributions = {"cash", "invest"}
    /\ yearly[1][1].bucket_contributions["cash"] > 0

\* an empty series aggregated
AggregatedEmpty ==
    /\ pc = "aggregated"
    /\ months = 0
    /\ yearly = Some(<<>>)

----------------------------------------------------------------------------
(* Properties of a year of projection *)

\* a 12-month series has been aggregated, every month saving 1000 at one rate
ConstantYear ==
    /\ pc = "aggregated"
    /\ months = 12
    /\ \A i \in Ran :
         /\ projections[i].savings = 1000
         /\ projections[i].savings_rate = projections[1].savings_rate

\* C21 as stated: a 12-month series with constant savings 1000 and constant
\* rate r, whatever its start date, aggregates to a yearly savings of 12000
\* and an avg_savings_rate of r.
C21_Original ==
    ConstantYear =>
        \E j \in 1..Len(yearly[1]) :
            /\ yearly[1][j].savings = 12000
            /\ yearly[1][j].avg_savings_rate = projections[1].savings_rate

\* C21 amended: such a series aggregates to one entry per calendar year
\* spanned, each with savings 1000 times the number of its months and
\* avg_savings_rate r; the yearly savings add up to 12000, and the series
\* gives a single entry with savings 12000 when its months lie in one
\* calendar year.
C21_ConstantYearPerCalendarYear ==
    ConstantYear =>
        LET ys == yearly[1]
        IN /\ \A j \in 1..Len(ys) :
                /\ ys[j].savings = 1000 * Cardinality(MonthsIn(ys[j].year))
                /\ ys[j].avg_savings_rate = projections[1].savings_rate
           /\ SumValues([j \in 1..Len(ys) |-> ys[j].savings]) = 12000
           /\ CalendarYear(1) = CalendarYear(12) =>
                /\ Len(ys) = 1
                /\ ys[1].savings = 12000
           /\ CalendarYear(1) # CalendarYear(12) =>
                /\ Len(ys) = 2
                /\ ys[1].savings < 12000
                /\ ys[2].savings < 12000

\* twelve months from January 2026 saving 1000 of a net income of 4000
C21_Witness ==
    /\ ConstantYear
    /\ assumptions.start_date = Some(<<2026, 1>>)
    /\ Len(yearly[1]) = 1
    /\ yearly[1][1].year = 2026
    /\ yearly[1][1].savings = 12000
    /\ yearly[1][1].avg_savings_rate = <<1, 4>>

\* the same twelve months from November 2026: 2000 in 2026, 10000 in 2027
SplitYear ==
    /\ ConstantYear
    /\ assumptions.start_date = Some(<<2026, 11>>)
    /\ yearly[1][1].savings = 2000
    /\ yearly[1][2].savings = 10000
    /\ yearly[1][2].avg_savings_rate = <<1, 4>>

\* the first and the last month of the period that fall in calendar year y
FirstMonthOf(y) == CHOOSE i \in MonthsIn(y) : \A k \in MonthsIn(y) : i <= k

LastMonthOf(y) == CHOOSE i \in MonthsIn(y) : \A k \in MonthsIn(y) : i >= k

\* every weighted bucket has a return of zero
ZeroReturns ==
    \A b \in DOMAIN Weights(assumptions) : Get(Returns(assumptions), b, 0) = 0

\* C22: for every year and bucket, bucket_balances_start is the first
\* month's end balance minus that month's allocation, bucket_balances_end
\* is the last month's bucket balances and total_wealth_end their sum; with
\* zero returns a year's start is the previous year's end, or the initial
\* balance in the first year.
C22_YearBalances ==
    (~IsNone(yearly)) =>
        LET ys == yearly[1]
        IN \A j \in 1..Len(ys) :
             LET first == projections[FirstMonthOf(ys[j].year)]
                 last  == projections[LastMonthOf(ys[j].year)]
             IN /\ ys[j].bucket_balances_end = last.bucket_balances
                /\ ys[j].total_wealth_end = SumValues(last.bucket_balances)
                /\ DOMAIN ys[j].bucket_balances_start = DOMAIN last.bucket_balances
                /\ \A b \in DOMAIN last.bucket_balances :
                     /\ ys[j].bucket_balances_start[b]
                          = first.bucket_balances[b] - first.bucket_allocations[b]
                     /\ ZeroReturns =>
                          ys[j].bucket_balances_start[b]
                            = IF j = 1
                              THEN Get(StartBalances(assumptions, initial_balances), b, 0)
                              ELSE ys[j - 1].bucket_balances_end[b]

\* no bucket balance of the period, the initial ones included, is negative
NeverOverdrawn ==
    /\ \A b \in DOMAIN StartBalances(assumptions, initial_balances) :
           StartBalances(assumptions, initial_balances)[b] >= 0
    /\ \A i \in Ran : \A b \in DOMAIN projections[i].bucket_balances :
           projections[i].bucket_balances[b] >= 0

\* the year balances of periods in which no bucket is ever overdrawn
YearBalancesWhenNeverOverdrawn == NeverOverdrawn => C22_YearBalances

----------------------------------------------------------------------------
(* Frame properties of the engine's operations *)

\* what a step of a constructed engine leaves alone
InputsKept ==
    /\ engine = "ready" => assumptions' = assumptions
    /\ pc \in {"loop", "done", "raised", "aggregated"} =>
           initial_balances' = initial_balances
    /\ pc = "loop" =>
           /\ Len(projections') >= Len(projections)
           /\ SubSeq(projections', 1, Len(projections)) = projections
           /\ Len(projections') > Len(projections) =>
                  /\ Len(projections') = Len(projections) + 1
                  /\ projections'[Len(projections')]
                       = ProjectMonth(assumptions, month_idx,
                                      PriorOf(Len(projections) + 1))
    /\ pc \in {"done", "aggregated"} => projections' = projections

----------------------------------------------------------------------------
(* Properties of the ledger *)

\* the absolute sum of the base amounts of tx is below 0.01
SumsBelowCent(tx) == Abs(PostingTotal(tx)) * 100 < RateDen

EveryHeldTransactionBalanced ==
    \A id \in DOMAIN transactions :
        /\ transactions[id].id = id
        /\ SumsBelowCent(transactions[id])

AddTransactionOutcome ==
    ((~IsNone(ledger_call')) /\ ledger_call'[1].op = "add_transaction") =>
        LET tx == ledger_call'[1].argument
        IN IF SumsBelowCent(tx)
           THEN /\ ledger_call'[1].raised = "none"
                /\ tx.id \in DOMAIN transactions'
                /\ transactions'[tx.id] = tx
           ELSE /\ ledger_call'[1].raised = "ValueError"
                /\ transactions' = transactions
                /\ accounts' = accounts

----------------------------------------------------------------------------
(* Display conversion and the simulation *)

\* a MonthlyProjection with its two display maps blanked
WithoutFx(p) == [p EXCEPT !.net_income_fx = EmptyDict, !.total_wealth_fx = EmptyDict]

\* an FXMapping with another display currency and another rate
OtherFx ==
    Some([base_currency |-> "SGD", display_currencies |-> <<"XAU">>,
          rates |-> [pair \in {"SGDXAU"} |-> 10]])

\* the run of project_period on the same inputs with fx_mapping replaced
RunWith(fx) ==
    ProjectPeriod([assumptions EXCEPT !.fx_mapping = fx], months, initial_balances)

\* C25: two runs of project_period that differ only in fx_mapping agree, in
\* every month, on every field other than net_income_fx and total_wealth_fx.
C25_FxDoesNotInfluence ==
    pc = "done" =>
        \A fx \in {None, OtherFx} :
            /\ Len(RunWith(fx)) = Len(projections)
            /\ \A i \in Ran : WithoutFx(RunWith(fx)[i]) = WithoutFx(projections[i])

\* a finished year with display currencies, buffer priority and a one-time
\* cost, whose display maps differ from those of the run without FXMapping
C25_Witness ==
    /\ pc = "done"
    /\ months = 12
    /\ ~IsNone(assumptions.fx_mapping)
    /\ assumptions.enforce_cash_buffer
    /\ assumptions.one_time_costs # <<>>
    /\ projections[12].net_income_fx["USD"] = 6000
    /\ projections[12].total_wealth_fx["USD"] > projections[1].total_wealth_fx["USD"]
    /\ RunWith(None)[12].total_wealth_fx = EmptyDict

----------------------------------------------------------------------------
(* C26: the priority amount and the month's savings *)

\* allocation_weights sum exactly to 1
WeightsSumToOne == SumValues(Weights(assumptions)) = RateDen

\* C26: in a month with the buffer rule on and the buffer below target, with
\* allocation_weights summing exactly to 1, the bucket_allocations add up to
\* the month's savings, whatever the cash_buffer_bucket_name.
C26_PriorityAmountCredited ==
    (engine = "ready" /\ WeightsSumToOne) =>
        \A k \in Ran :
            BelowTarget(k) =>
                SumValues(projections[k].bucket_allocations) = projections[k].savings

\* the same, for a buffer bucket that has an allocation weight
PriorityAmountCreditedToWeightedBuffer ==
    (engine = "ready" /\ WeightsSumToOne /\ BufferNamed) =>
        (Buffer \in DOMAIN Weights(assumptions) =>
            \A k \in Ran :
                BelowTarget(k) =>
                    SumValues(projections[k].bucket_allocations)
                        = projections[k].savings)

\* a month below target whose buffer bucket has no weight and whose
\* allocations fall short of positive savings by the priority amount
PriorityAmountLost ==
    /\ engine = "ready"
    /\ WeightsSumToOne
    /\ \E k \in Ran :
        /\ BelowTarget(k)
        /\ Buffer \notin DOMAIN Weights(assumptions)
        /\ projections[k].savings > 0
        /\ SumValues(projections[k].bucket_allocations)
               = projections[k].savings - ToBufferOf(k)

----------------------------------------------------------------------------
(* C27: the buckets of a projection *)

\* the sum of the balances the k-th month reports for the weighted buckets
WeightedWealth(k) ==
    SumKeys(projections[k].bucket_balances,
            DOMAIN Weights(assumptions) \cap DOMAIN projections[k].bucket_balances)

\* C27: in every month bucket_allocations and bucket_balances have exactly
\* the keys of allocation_weights; each weighted bucket is rolled forward from
\* its prior balance, or from 0 when the prior balances lack it; a prior
\* balance of a bucket without a weight is in no output balance, not in the
\* balances handed to the next month and not in total wealth.
C27_BucketsAreTheWeighted ==
    engine = "ready" =>
        /\ \A k \in Ran :
            LET p == projections[k]
                w == Weights(assumptions)
            IN /\ DOMAIN p.bucket_allocations = DOMAIN w
               /\ DOMAIN p.bucket_balances = DOMAIN w
               /\ \A b \in DOMAIN w :
                      p.bucket_balances[b]
                          = NewBalance(Get(PriorOf(k), b, 0),
                                       Get(Returns(assumptions), b, 0),
                                       p.bucket_allocations[b])
               /\ k > 1 => DOMAIN PriorOf(k) = DOMAIN w
               /\ p.total_wealth_fx = FxMap(assumptions, WeightedWealth(k))
        /\ pc \in {"loop", "done"} /\ month_idx > 0 =>
               DOMAIN current_balances = DOMAIN Weights(assumptions)
        /\ pc = "aggregated" /\ projections # <<>> =>
               yearly[1][Len(yearly[1])].total_wealth_end
                   = WeightedWealth(Len(projections))

\* a finished year whose initial balances name two buckets without a weight
\* and lack the only weighted one, reported in display currencies
C27_Witness ==
    /\ pc = "aggregated"
    /\ months = 12
    /\ DOMAIN Weights(assumptions) = {"invest"}
    /\ ~IsNone(initial_balances)
    /\ DOMAIN initial_balances[1] = {"cash", "other"}
    /\ initial_balances[1]["other"] = 2000
    /\ ~IsNone(assumptions.fx_mapping)
    /\ projections[1].bucket_balances = projections[1].bucket_allocations
    /\ projections[1].total_wealth_fx["USD"] > 0

----------------------------------------------------------------------------
(* C28: conservation of savings *)

\* the balance supplied to project_period for bucket b, 0 when none is
InitialOf(b) ==
    IF IsNone(initial_balances) THEN 0 ELSE Get(initial_balances[1], b, 0)

\* the savings of the months up to the k-th
SavingsUpTo(k) == SumKeys([i \in Ran |-> projections[i].savings], 1..k)

\* proportional mode, or buffer mode with the buffer bucket among the weights
BufferWeightedOrOff ==
    ProportionalMode \/ Buffer \in DOMAIN Weights(assumptions)

\* no allocation weight and no supplied initial balance is negative
NothingNegative ==
    /\ \A b \in DOMAIN Weights(assumptions) : Weights(assumptions)[b] >= 0
    /\ ~IsNone(initial_balances) =>
           \A b \in DOMAIN initial_balances[1] : initial_balances[1][b] >= 0

\* the balance of bucket b before the k-th month
BalanceBefore(k, b) ==
    IF k = 1 THEN InitialOf(b) ELSE projections[k - 1].bucket_balances[b]

\* C28: in a period with every bucket return 0: when allocation_weights sum
\* exactly to 1 and the mode is proportional or the buffer bucket is weighted,
\* the balances after each month add up to the initial balances of the
\* weighted buckets plus the savings so far; when no weight and no initial
\* balance is negative, no bucket balance is negative or lower than the
\* month before.
C28_SavingsConserved ==
    (engine = "ready" /\ pc \in {"loop", "done"} /\ ZeroReturns) =>
        LET w == Weights(assumptions)
        IN /\ (WeightsSumToOne /\ BufferWeightedOrOff) =>
                  \A k \in Ran :
                      SumValues(projections[k].bucket_balances)
                          = SumKeys([b \in DOMAIN w |-> InitialOf(b)], DOMAIN w)
                              + SavingsUpTo(k)
           /\ NothingNegative =>
                  \A k \in Ran : \A b \in DOMAIN w :
                      /\ projections[k].bucket_balances[b] >= 0
                      /\ projections[k].bucket_balances[b] >= BalanceBefore(k, b)

\* three months without returns, one of them in buffer priority mode: a
\* weighted buffer bucket with an initial balance beside a supplied bucket
\* without a weight, positive savings in every month, and balances adding up
\* to the initial cash plus the savings
C28_Witness ==
    /\ pc = "done"
    /\ Len(projections) = 3
    /\ ZeroReturns
    /\ WeightsSumToOne
    /\ NothingNegative
    /\ DOMAIN Weights(assumptions) = {"cash", "invest"}
    /\ ~IsNone(initial_balances)
    /\ DOMAIN initial_balances[1] = {"cash", "other"}
    /\ \A k \in Ran : projections[k].savings > 0
    /\ \E k \in Ran : BelowTarget(k)
    /\ SumValues(projections[3].bucket_balances) = 96000 + SavingsUpTo(3)
    /\ projections[3].bucket_balances["cash"] > projections[1].bucket_balances["cash"]

\* a month in which a negative weight takes a bucket below its prior balance
NegativeWeightDraws ==
    /\ engine = "ready"
    /\ ZeroReturns
    /\ WeightsSumToOne
    /\ DOMAIN Weights(assumptions) = {"cash", "invest"}
    /\ \E k \in Ran :
        /\ projections[k].bucket_balances["cash"] < BalanceBefore(k, "cash")
        /\ SumValues(projections[k].bucket_balances)
               = InitialOf("cash") + InitialOf("invest") + SavingsUpTo(k)

----------------------------------------------------------------------------
(* C29: the breakdown and the total *)

\* the category_id keys of the assumptions
CategoryIds(a) ==
    {a.category_budgets[i].category_id : i \in 1..Len(a.category_budgets)}

\* the "category_id:subcategory_id" keys of category cb
CompositeKeys(cb) ==
    {CompositeKey(cb, cb.subcategory_budgets[j]) :
         j \in 1..Len(cb.subcategory_budgets)}

\* the breakdown adds up: the total is the sum of the entries under
\* category_id keys, a subcategoried category's entry the sum of its
\* composite entries
BreakdownAddsUp(a, p) ==
    LET bd == p.expense_breakdown
    IN /\ p.expenses = SumKeys(bd, CategoryIds(a) \cap DOMAIN bd)
       /\ \A i \in 1..Len(a.category_budgets) :
            LET cb == a.category_budgets[i]
            IN cb.subcategory_budgets # <<>> =>
                 Get(bd, cb.category_id, 0 - 1)
                     = SumKeys(bd, CompositeKeys(cb) \cap DOMAIN bd)

\* C29: in category mode the reported expenses are the sum of the
\* expense_breakdown entries under category_id keys, and the entry of each
\* category with subcategories is the sum of its composite entries.
C29_BreakdownAddsUp ==
    (Called /\ assumptions.category_budgets # <<>>) =>
        BreakdownAddsUp(assumptions, Returned)

\* the same, for budgets in which no two breakdown keys coincide
BreakdownAddsUpWithDistinctKeys ==
    (Called /\ assumptions.category_budgets # <<>> /\ DistinctKeys(assumptions)) =>
        BreakdownAddsUp(assumptions, Returned)

\* a call in category mode with subcategories and distinct keys at a month
\* after the first
DistinctKeysCalled ==
    /\ Called
    /\ DistinctKeys(assumptions)
    /\ CalledIndex > 0
    /\ \E i \in 1..Len(assumptions.category_budgets) :
           Len(assumptions.category_budgets[i].subcategory_budgets) > 1
    /\ Returned.expenses > 0

----------------------------------------------------------------------------
(* C30: the active scenario of a workspace *)

ActiveIn(w) ==
    {id \in DOMAIN scenarios :
        scenarios[id].workspace_id = w /\ scenarios[id].is_active}

\* every workspace has at most one scenario with is_active true
AtMostOneActive == \A w \in Workspaces : Cardinality(ActiveIn(w)) <= 1

\* a request leaves every scenario of the other workspaces as it was
OtherWorkspacesKept ==
    \A id \in DOMAIN scenarios :
        scenarios[id].workspace_id # request'[1].workspace_id =>
            /\ id \in DOMAIN scenarios'
            /\ scenarios'[id] = scenarios[id]

\* C30: after any sequence of save, update, activate (toggle) and delete
\* requests every workspace has at most one active scenario, and no request
\* of one workspace changes is_active, or anything else, of a scenario of
\* another workspace.
C30_OneActivePerWorkspace == []AtMostOneActive /\ [][OtherWorkspacesKept]_vars

\* an activate request in w1 has just moved the active flag from one scenario
\* of w1 to another while a scenario of w2 is active
C30_Witness ==
    /\ ~IsNone(request)
    /\ request[1].op = "activate"
    /\ request[1].status = 200
    /\ request[1].workspace_id = "w1"
    /\ ActiveIn("w1") = {request[1].scenario_id}
    /\ \E id \in DOMAIN scenarios :
           /\ id # request[1].scenario_id
           /\ scenarios[id].workspace_id = "w1"
           /\ scenarios[id].name = "lean"
    /\ Cardinality(ActiveIn("w2")) = 1

\* a request answered with 404 for a scenario of another workspace
ForeignRequestRefused ==
    /\ ~IsNone(request)
    /\ request[1].status = 404
    /\ request[1].scenario_id \in DOMAIN scenarios
    /\ scenarios[request[1].scenario_id].workspace_id # request[1].workspace_id
    /\ scenarios[request[1].scenario_id].is_active

====
